---- MODULE Spec2Model ----
(***************************************************************************)
(* Model of the incident analyzer of lekce_9/agent/analyzer.py: the        *)
(* aggregation parser, the statistics calculator, the extraction pipeline  *)
(* (extract_incident_data_from_mcp_response) and the report formatter;     *)
(* and of the MCP server of lekce_9/mcp_server with its two tools,         *)
(* search_wazuh_incidents and web_search.                                  *)
(*                                                                         *)
(* Representation of Python values:                                        *)
(*   - an optional value (dict.get without the key) is <<>> or <<x>>;      *)
(*   - a str that the code inspects is a sequence of one-character         *)
(*     strings; opaque text (dates, field values) is a TLA+ string;        *)
(*   - a bucket key is a tagged value: an int or a str;                    *)
(*   - a dict is the sequence of its items in insertion order.             *)
(***************************************************************************)
EXTENDS Integers, Sequences, FiniteSets, TLC

VARIABLES
    doc,          \* the decoded-or-not MCP response handed to the pipeline
    pc,           \* position in extract_incident_data_from_mcp_response / main
    parsed_aggs,  \* <<>> or <<result of parse_aggregations>>
    stats,        \* <<>> or <<result of calculate_statistics>>
    result,       \* <<>> or <<dictionary returned by the extraction>>
    raised,       \* <<>> or <<[type, cause]>>: the exception that left the call
    formatted,    \* <<>> or <<text returned by format_data_for_llm_analysis>>
    formatted_again,  \* <<>> or <<text of a second call on the same incident_data>>
    req,          \* arguments and environment of a tool call of the MCP server
    tpc,          \* position in the tool function
    work,         \* locals of the tool function
    resp,         \* <<>> or <<document the tool function returns>>
    agent,        \* <<>> or <<state of the agent workflow main()>>
    pdf,          \* <<>> or <<state of a call of extract_recommendations>>
    chat          \* <<>> or <<state of a call of get_completion_from_messages>>

tool == <<req, tpc, work, resp>>

(* the variables of the callers and of the other programs of the repository *)
rest == <<agent, pdf, chat>>

vars == <<doc, pc, parsed_aggs, stats, result, raised, formatted, formatted_again,
          req, tpc, work, resp, agent, pdf, chat>>

-----------------------------------------------------------------------------
(* Bounds of the model *)

MaxCount == 1
MaxSevBuckets == 2
MaxRankBuckets == 3
MaxTotal == 12
MaxDays == 8
MaxSamples == 202
MaxTimeline == 3
MaxTopKeys == 22

-----------------------------------------------------------------------------
(* Python values *)

None == <<>>
Some(x) == <<x>>
Get(o, default) == IF Len(o) = 1 THEN o[1] ELSE default

IntKey(n) == [t |-> "int", n |-> n, s |-> <<>>]
StrKey(s) == [t |-> "str", n |-> 0, s |-> s]

NA == StrKey(<<"N", "/", "A">>)
Czechia == StrKey(<<"C", "z", "e", "c", "h", "i", "a">>)
Germany == StrKey(<<"G", "e", "r", "m", "a", "n", "y">>)

Abs(n) == IF n < 0 THEN -n ELSE n

DigitChars == {"0", "1", "2", "3", "4", "5", "6", "7", "8", "9"}

DigitVal(c) ==
    CASE c = "0" -> 0 [] c = "1" -> 1 [] c = "2" -> 2 [] c = "3" -> 3
      [] c = "4" -> 4 [] c = "5" -> 5 [] c = "6" -> 6 [] c = "7" -> 7
      [] c = "8" -> 8 [] c = "9" -> 9

RECURSIVE Strip(_)
Strip(s) ==
    IF s = <<>> THEN s
    ELSE IF Head(s) = " " THEN Strip(Tail(s))
    ELSE IF s[Len(s)] = " " THEN Strip(SubSeq(s, 1, Len(s) - 1))
    ELSE s

RECURSIVE DigitsValue(_, _)
DigitsValue(s, acc) ==
    IF s = <<>> THEN acc ELSE DigitsValue(Tail(s), 10 * acc + DigitVal(Head(s)))

IntOfStrLenient(s) ==
    IF s = <<>> \/ \E i \in 1..Len(s) : s[i] \notin DigitChars
    THEN Some(0)
    ELSE Some(DigitsValue(s, 0))

(* int(x) of a str: surrounding blanks, an optional sign, then decimal     *)
(* digits; anything else raises ValueError, modelled as None.              *)
IntOfStr(s) ==
    LET b == Strip(s)
        signed == b # <<>> /\ Head(b) \in {"+", "-"}
        digits == IF signed THEN Tail(b) ELSE b
    IN  IF digits = <<>> \/ \E i \in 1..Len(digits) : digits[i] \notin DigitChars
        THEN None
        ELSE IF signed /\ Head(b) = "-"
             THEN Some(-DigitsValue(digits, 0))
             ELSE Some(DigitsValue(digits, 0))

(* s.split(sep): the pieces of s between the occurrences of sep *)
SplitOn(s, sep) ==
    LET cuts == {i \in 1..Len(s) : s[i] = sep}
        n == Cardinality(cuts)
        Cut(k) == IF k = 0 THEN 0
                  ELSE IF k = n + 1 THEN Len(s) + 1
                  ELSE CHOOSE i \in cuts : Cardinality({j \in cuts : j < i}) = k - 1
    IN  [k \in 1..(n + 1) |-> SubSeq(s, Cut(k - 1) + 1, Cut(k) - 1)]

IntOfDefaulting(key) ==
    IF key.t = "int" THEN Some(key.n) ELSE Some(Get(IntOfStr(key.s), 0))

(* int(level) for a bucket key *)
IntOf(key) == IF key.t = "int" THEN Some(key.n) ELSE IntOfStr(key.s)

-----------------------------------------------------------------------------
(* dicts as item sequences *)

HasKey(d, key) == \E i \in 1..Len(d) : d[i].k = key
Lookup(d, key, default) ==
    IF HasKey(d, key) THEN d[CHOOSE i \in 1..Len(d) : d[i].k = key].v ELSE default

DictSetDefault(d, key, val) ==
    IF HasKey(d, key) THEN d ELSE Append(d, [k |-> key, v |-> val])

(* d[key] = val: a present key keeps its position, a new key goes last *)
DictSet(d, key, val) ==
    IF HasKey(d, key)
    THEN [i \in 1..Len(d) |-> IF d[i].k = key THEN [k |-> key, v |-> val] ELSE d[i]]
    ELSE Append(d, [k |-> key, v |-> val])

KeepItems(d, drop) == d

(* {k: v for k, v in d.items() if k != drop} *)
RECURSIVE FilterItems(_, _)
FilterItems(d, drop) ==
    IF d = <<>> THEN <<>>
    ELSE IF Head(d).k = drop THEN FilterItems(Tail(d), drop)
    ELSE <<Head(d)>> \o FilterItems(Tail(d), drop)

-----------------------------------------------------------------------------
(* Outcome of a call: a returned value, or the exception that left it *)

Ok(v) == [exc |-> "", val |-> v]
Raise(e) == [exc |-> e, val |-> <<>>]
IsOk(r) == r.exc = ""

-----------------------------------------------------------------------------
(* Aggregation parser *)

Bucket(key, count) == [key |-> Some(key), doc_count |-> Some(count)]
TimeBucket(date, count) == [key_as_string |-> Some(date), doc_count |-> Some(count)]

Absent == [st |-> "absent", buckets |-> <<>>]
NoBuckets == [st |-> "nobuckets", buckets |-> <<>>]
Section(bs) == [st |-> "buckets", buckets |-> bs]

BucketsOfStrict(section) ==
    CASE section.st = "absent" -> Raise("KeyError")
      [] section.st = "nobuckets" -> Raise("KeyError")
      [] section.st = "buckets" -> Ok(section.buckets)
      [] section.st = "null" -> Raise("TypeError")
      [] section.st = "nullbuckets" -> Ok(None)
      [] section.st = "list" -> Raise("TypeError")

(* agg_data.get(name, {}).get("buckets", []) *)
BucketsOf(section) ==
    CASE section.st = "absent" -> Ok(<<>>)
      [] section.st = "nobuckets" -> Ok(<<>>)
      [] section.st = "buckets" -> Ok(section.buckets)
      [] section.st = "null" -> Raise("AttributeError")
      [] section.st = "nullbuckets" -> Ok(None)
      [] section.st = "list" -> Raise("AttributeError")

RECURSIVE BucketFold(_, _)
BucketFold(bucket_data, acc) ==
    IF bucket_data = <<>> THEN Ok(acc)
    ELSE LET bucket == Head(bucket_data)
         IN  IF bucket.key = None \/ bucket.doc_count = None
             THEN Raise("KeyError")
             ELSE BucketFold(Tail(bucket_data),
                             DictSet(acc, bucket.key[1], bucket.doc_count[1]))

parse_bucket_aggregation(bucket_data) == BucketFold(bucket_data, <<>>)

RECURSIVE TimelineFoldStaleDate(_, _)
TimelineFoldStaleDate(timeline_data, data) ==
    IF timeline_data = <<>> THEN Ok(data)
    ELSE LET bucket == Head(timeline_data)
         IN  IF bucket.key_as_string = None \/ bucket.doc_count = None
             THEN Raise("KeyError")
             ELSE TimelineFoldStaleDate(Tail(timeline_data),
                     Append(data, [date |-> IF data = <<>> THEN bucket.key_as_string[1]
                                            ELSE data[1].date,
                                   count |-> bucket.doc_count[1]]))

RECURSIVE TimelineFoldPrepending(_, _)
TimelineFoldPrepending(timeline_data, data) ==
    IF timeline_data = <<>> THEN Ok(data)
    ELSE LET bucket == Head(timeline_data)
         IN  IF bucket.key_as_string = None \/ bucket.doc_count = None
             THEN Raise("KeyError")
             ELSE TimelineFoldPrepending(Tail(timeline_data),
                     <<[date |-> bucket.key_as_string[1],
                        count |-> bucket.doc_count[1]]>> \o data)

RECURSIVE TimelineFold(_, _)
TimelineFold(timeline_data, data) ==
    IF timeline_data = <<>> THEN Ok(data)
    ELSE LET bucket == Head(timeline_data)
         IN  IF bucket.key_as_string = None \/ bucket.doc_count = None
             THEN Raise("KeyError")
             ELSE TimelineFold(Tail(timeline_data),
                               Append(data, [date |-> bucket.key_as_string[1],
                                             count |-> bucket.doc_count[1]]))

parse_timeline_aggregation(timeline_data) == TimelineFold(timeline_data, <<>>)

(* One dictionary entry of parse_aggregations: fetch the bucket list, then *)
(* parse it; iterating a null bucket list is a TypeError.                  *)
ParseSection(section, timeline) ==
    LET got == BucketsOf(section)
    IN  IF ~IsOk(got) THEN got
        ELSE IF section.st = "nullbuckets" THEN Raise("TypeError")
        ELSE IF timeline THEN parse_timeline_aggregation(got.val)
        ELSE parse_bucket_aggregation(got.val)

AggNames == <<"by_level", "by_region", "by_groups", "by_agent", "by_decoder",
              "by_srcip", "timeline">>

(* The dictionary display is evaluated top to bottom: the first entry that *)
(* raises decides the exception.                                           *)
parse_aggregations(agg_data) ==
    LET p == [i \in 1..7 |-> ParseSection(agg_data[AggNames[i]], i = 7)]
    IN  IF \E i \in 1..7 : ~IsOk(p[i])
        THEN Raise(p[CHOOSE i \in 1..7 :
                        ~IsOk(p[i]) /\ \A j \in 1..(i - 1) : IsOk(p[j])].exc)
        ELSE Ok([severity |-> p[1].val, regions |-> p[2].val, types |-> p[3].val,
                 agents |-> p[4].val, decoders |-> p[5].val, srcips |-> p[6].val,
                 timeline |-> p[7].val])

-----------------------------------------------------------------------------
(* Statistics calculator *)

CriticalLevel == 9

RECURSIVE CriticalSumOfLevels(_, _)
CriticalSumOfLevels(items, acc) ==
    IF items = <<>> THEN Ok(acc)
    ELSE LET level == IntOf(Head(items).k)
         IN  IF level = None THEN Raise("ValueError")
             ELSE CriticalSumOfLevels(Tail(items),
                                      IF level[1] > CriticalLevel
                                      THEN acc + level[1] ELSE acc)

RECURSIVE CriticalSumFromNine(_, _)
CriticalSumFromNine(items, acc) ==
    IF items = <<>> THEN Ok(acc)
    ELSE LET level == IntOf(Head(items).k)
         IN  IF level = None THEN Raise("ValueError")
             ELSE CriticalSumFromNine(Tail(items),
                                      IF level[1] >= CriticalLevel
                                      THEN acc + Head(items).v ELSE acc)

(* sum(count for level, count in severity_data.items() if int(level) > 9) *)
RECURSIVE CriticalSum(_, _)
CriticalSum(items, acc) ==
    IF items = <<>> THEN Ok(acc)
    ELSE LET level == IntOf(Head(items).k)
         IN  IF level = None THEN Raise("ValueError")
             ELSE CriticalSum(Tail(items),
                              IF level[1] > CriticalLevel
                              THEN acc + Head(items).v ELSE acc)

RECURSIVE MaxItemLast(_, _)
MaxItemLast(items, best) ==
    IF items = <<>> THEN best
    ELSE MaxItemLast(Tail(items), IF Head(items).v >= best.v THEN Head(items) ELSE best)

(* max(items, key=lambda x: x[1]): the first item with the greatest count *)
RECURSIVE MaxItem(_, _)
MaxItem(items, best) ==
    IF items = <<>> THEN best
    ELSE MaxItem(Tail(items), IF Head(items).v > best.v THEN Head(items) ELSE best)

TopKeyBlank(no_na) ==
    IF no_na # <<>> THEN MaxItem(Tail(no_na), Head(no_na)).k ELSE StrKey(<<>>)

(* max(...)[0] if the filtered mapping is not empty else "N/A" *)
TopKey(no_na) == IF no_na # <<>> THEN MaxItem(Tail(no_na), Head(no_na)).k ELSE NA

(* floor(log2(m / d)) for m, d >= 1 *)
RECURSIVE FloorLog2(_, _)
FloorLog2(m, d) ==
    IF m >= 2 * d THEN 1 + FloorLog2(m, 2 * d)
    ELSE IF m < d THEN FloorLog2(2 * m, d) - 1
    ELSE 0

Pow2Mod20(e) ==
    IF e = 0 THEN 1 ELSE IF e = 1 THEN 2
    ELSE CASE e % 4 = 2 -> 4 [] e % 4 = 3 -> 8 [] e % 4 = 0 -> 16 [] e % 4 = 1 -> 12

(* The double nearest to m/20 (m odd, not a multiple of 5) lies above m/20 *)
(* exactly when the remainder dropped at the 53rd significant bit is more  *)
(* than half.                                                              *)
DoubleAbove(m) == ((m % 20) * Pow2Mod20(52 - FloorLog2(m, 20))) % 20 > 10

TruncTenths(a, b) == (10 * a) \div b

(* round(a / b, 1) in tenths for a >= 0, b >= 1: true division gives the   *)
(* nearest double, round() the decimal nearest to that double, an exact    *)
(* half going to the even tenth.                                           *)
RoundTenthsPos(a, b) ==
    LET k == (10 * a) \div b
        rem == (10 * a) % b
    IN  IF 2 * rem < b THEN k
        ELSE IF 2 * rem > b THEN k + 1
        ELSE IF (2 * k + 1) % 5 = 0 THEN (IF k % 2 = 0 THEN k ELSE k + 1)
        ELSE IF DoubleAbove(2 * k + 1) THEN k + 1 ELSE k

RoundTenths(total_hits, days) ==
    IF (total_hits < 0) # (days < 0)
    THEN -RoundTenthsPos(Abs(total_hits), Abs(days))
    ELSE RoundTenthsPos(Abs(total_hits), Abs(days))

calculate_statistics(total_hits, parsed_data, days) ==
    LET critical_count == CriticalSum(parsed_data.severity, 0)
        regions_no_na == FilterItems(parsed_data.regions, NA)
        types_no_na == FilterItems(parsed_data.types, NA)
        srcips_no_na == FilterItems(parsed_data.srcips, NA)
        top_srcip == TopKey(srcips_no_na)
    IN  IF ~IsOk(critical_count) THEN critical_count
        ELSE IF days = 0 THEN Raise("ZeroDivisionError")
        ELSE Ok([total_incidents |-> total_hits,
                 daily_average |-> RoundTenths(total_hits, days),
                 critical_count |-> critical_count.val,
                 top_country |-> TopKey(regions_no_na),
                 top_incident_type |-> TopKey(types_no_na),
                 top_srcip |-> top_srcip,
                 top_srcip_count |-> IF top_srcip # NA
                                     THEN Lookup(srcips_no_na, top_srcip, 0)
                                     ELSE 0])

-----------------------------------------------------------------------------
(* Input documents *)

SeqsUpTo(S, n) == UNION {[1..k -> S] : k \in 0..n}

Counts == 0..MaxCount

SevKeys ==
    {IntKey(5), IntKey(9), IntKey(10), StrKey(<<"9">>), StrKey(<<"1", "0">>),
     StrKey(<<" ", "1", "2">>), StrKey(<<"x">>)}

RankKeys == {NA, Czechia, Germany}

SevBuckets == {Bucket(k, c) : k \in SevKeys, c \in Counts}
RankBuckets == {Bucket(k, c) : k \in RankKeys, c \in Counts}

DefaultSections ==
    [by_level |-> Section(<<Bucket(IntKey(10), 1), Bucket(IntKey(5), 2)>>),
     by_region |-> Section(<<Bucket(NA, 2), Bucket(Czechia, 1)>>),
     by_groups |-> Section(<<Bucket(StrKey(<<"w", "e", "b">>), 2)>>),
     by_agent |-> Section(<<Bucket(StrKey(<<"s", "r", "v">>), 3)>>),
     by_decoder |-> Section(<<Bucket(StrKey(<<"n", "g", "i", "n", "x">>), 3)>>),
     by_srcip |-> Section(<<Bucket(NA, 1), Bucket(StrKey(<<"1", "0", ".", "1">>), 2)>>),
     timeline |-> Section(<<TimeBucket("2025-01-01", 1), TimeBucket("2025-01-02", 2)>>)]

AllAbsent == [i \in {AggNames[j] : j \in 1..7} |-> Absent]

(* raw_data.get("aggregations", {}) *)
AggregationsOf(d) == Get(d.aggregations, AllAbsent)

DefaultDoc ==
    [json |-> "object", error |-> FALSE, aggregations |-> Some(DefaultSections),
     total_hits |-> Some(3), days |-> Some(7), sample_incidents |-> Some(<<>>)]

(* severity keys and counts vary *)
SeverityDocs ==
    {[DefaultDoc EXCEPT !.aggregations = Some([DefaultSections EXCEPT !.by_level = Section(bs)])] :
        bs \in SeqsUpTo(SevBuckets, MaxSevBuckets)}

(* the buckets of one ranked dimension vary *)
RankDocs ==
    {[DefaultDoc EXCEPT !.aggregations = Some([DefaultSections EXCEPT ![name] = Section(bs)])] :
        name \in {"by_region", "by_groups", "by_srcip"},
        bs \in SeqsUpTo(RankBuckets, MaxRankBuckets)}

(* total_hits and the day span vary; days may be missing from query_info *)
DayValues == (-MaxDays..MaxDays) \cup {20}

DaysDocs ==
    {[DefaultDoc EXCEPT !.total_hits = t, !.days = d] :
        t \in {None} \cup {Some(n) : n \in 0..MaxTotal},
        d \in {None} \cup {Some(n) : n \in DayValues}}

(* every section is absent, present with no or an empty bucket list, or filled *)
SparseDocs ==
    {[DefaultDoc EXCEPT !.aggregations = Some(
          [name \in DOMAIN DefaultSections |->
              CASE how[name] = "absent" -> Absent
                [] how[name] = "empty" -> Section(<<>>)
                [] how[name] = "filled" -> DefaultSections[name]])] :
        how \in [DOMAIN DefaultSections -> {"absent", "empty", "filled"}]}
    \cup {[DefaultDoc EXCEPT !.aggregations = Some(
          [name \in DOMAIN DefaultSections |->
              IF name \in gone THEN NoBuckets ELSE DefaultSections[name]])] :
        gone \in SUBSET DOMAIN DefaultSections}
    \cup {[DefaultDoc EXCEPT !.aggregations = None]}

(* the timeline buckets vary: any dates in any order, repeats included *)
Dates == {"2025-01-01", "2025-01-02", "2025-01-03"}

TimelineDocs ==
    {[DefaultDoc EXCEPT !.aggregations = Some([DefaultSections EXCEPT !.timeline = Section(bs)])] :
        bs \in SeqsUpTo({TimeBucket(d, c) : d \in Dates, c \in Counts}, MaxTimeline)}

(* Sample records: a field is missing, null or holds a value *)
Val(x) == [st |-> "val", val |-> x]
Missing == [st |-> "missing", val |-> 0]
Null == [st |-> "null", val |-> 0]

LogText(id, len) == [st |-> "val", val |-> [text |-> id, len |-> len]]

Sample(id) ==
    [timestamp |-> Val(id), agent_name |-> Val(id % 3), rule_level |-> Val(id % 16),
     rule_description |-> Val(id % 5), rule_groups |-> Val(<<id % 2, 7>>),
     country_name |-> Val(id % 4), src_ip |-> Val(id % 7), url |-> Val(id % 2),
     full_log |-> LogText(id, 150 + id)]

(* n records, newest first as the search tool sorts them, or oldest first *)
SampleDocs ==
    {[DefaultDoc EXCEPT !.sample_incidents =
          Some([i \in 1..n |-> Sample(IF desc THEN n + 1 - i ELSE i)])] :
        n \in 0..MaxSamples, desc \in BOOLEAN}
    \cup {[DefaultDoc EXCEPT !.sample_incidents = None]}

(* short sample lists whose records lack fields or hold nulls *)
SparseSample ==
    [Sample(2) EXCEPT !.agent_name = Missing, !.rule_groups = Missing,
                      !.url = Null, !.full_log = Missing]

NullSample == [Sample(3) EXCEPT !.rule_groups = Null, !.full_log = Null]

OddSampleDocs ==
    {[DefaultDoc EXCEPT !.sample_incidents = Some(ss)] :
        ss \in SeqsUpTo({Sample(1), SparseSample, NullSample}, 2)}

(* the scenario of the specification's end-to-end property *)
ScenarioDoc ==
    [json |-> "object", error |-> FALSE,
     aggregations |-> Some(
        [AllAbsent EXCEPT
            !.by_level = Section(<<Bucket(IntKey(10), 3), Bucket(IntKey(5), 67)>>),
            !.by_region = Section(<<Bucket(NA, 60), Bucket(Czechia, 10)>>),
            !.timeline = Section(<<TimeBucket("2025-01-01", 70)>>)]),
     total_hits |-> Some(70), days |-> Some(7), sample_incidents |-> None]

(* what the search tool returns when it fails: an error and the query info *)
ToolErrorDoc ==
    [json |-> "object", error |-> TRUE, aggregations |-> None,
     total_hits |-> None, days |-> Some(7), sample_incidents |-> None]

(* a few documents combining the ways a document can be wrong *)
MixedDocs ==
    {[DefaultDoc EXCEPT !.json = j, !.error = e, !.days = d,
                        !.aggregations = Some([DefaultSections EXCEPT !.by_level = Section(sev)])] :
        j \in {"object", "array", "invalid"}, e \in BOOLEAN,
        d \in {Some(7), Some(0), Some(-1)},
        sev \in {<<Bucket(IntKey(10), 1)>>,
                 <<Bucket(IntKey(10), 1), Bucket(StrKey(<<"x">>), 1)>>}}

-----------------------------------------------------------------------------
(* Report formatter *)

Min(a, b) == IF a < b THEN a ELSE b

TopN == 10
TopSrcips == 20
SampleCap == 200
LogCap == 200

(* characters in code-point order, for str comparison *)
Alphabet ==
    <<" ", "+", "-", ".", "/", "0", "1", "2", "3", "4", "5", "6", "7", "8", "9",
      "A", "C", "G", "N", "a", "b", "c", "e", "g", "h", "i", "k", "m", "n", "r", "s",
      "v", "w", "x", "y", "z">>

CharCode(c) == CHOOSE i \in 1..Len(Alphabet) : Alphabet[i] = c

RECURSIVE StrLess(_, _)
StrLess(a, b) ==
    IF b = <<>> THEN FALSE
    ELSE IF a = <<>> THEN TRUE
    ELSE IF Head(a) = Head(b) THEN StrLess(Tail(a), Tail(b))
    ELSE CharCode(Head(a)) < CharCode(Head(b))

DigitChar(d) == Alphabet[6 + d]

RECURSIVE NatToStr(_)
NatToStr(n) ==
    IF n < 10 THEN <<DigitChar(n)>> ELSE Append(NatToStr(n \div 10), DigitChar(n % 10))

(* str(key), as an f-string renders it *)
KeyText(key) ==
    IF key.t = "str" THEN key.s
    ELSE IF key.n < 0 THEN <<"-">> \o NatToStr(-key.n) ELSE NatToStr(key.n)

(* (k1, v1) < (k2, v2) for items whose keys have one type *)
ItemLess(x, y) ==
    IF x.k = y.k THEN x.v < y.v
    ELSE IF x.k.t = "int" THEN x.k.n < y.k.n ELSE StrLess(x.k.s, y.k.s)

RECURSIVE InsertAscending(_, _)
InsertAscending(sorted, x) ==
    IF sorted = <<>> THEN <<x>>
    ELSE IF ItemLess(x, Head(sorted)) THEN <<x>> \o sorted
    ELSE <<Head(sorted)>> \o InsertAscending(Tail(sorted), x)

RECURSIVE SortAscending(_, _)
SortAscending(items, acc) ==
    IF items = <<>> THEN acc
    ELSE SortAscending(Tail(items), InsertAscending(acc, Head(items)))

(* sorted(d.items()): comparing an int key with a str key is a TypeError *)
SortedItems(items) ==
    IF \E i, j \in 1..Len(items) : items[i].k.t # items[j].k.t
    THEN Raise("TypeError")
    ELSE Ok(SortAscending(items, <<>>))

RECURSIVE InsertByCountUnstable(_, _)
InsertByCountUnstable(sorted, x) ==
    IF sorted = <<>> THEN <<x>>
    ELSE IF x.v >= Head(sorted).v THEN <<x>> \o sorted
    ELSE <<Head(sorted)>> \o InsertByCountUnstable(Tail(sorted), x)

(* stable: x goes after every item whose count is at least its own *)
RECURSIVE InsertByCount(_, _)
InsertByCount(sorted, x) ==
    IF sorted = <<>> THEN <<x>>
    ELSE IF x.v > Head(sorted).v THEN <<x>> \o sorted
    ELSE <<Head(sorted)>> \o InsertByCount(Tail(sorted), x)

RECURSIVE SortByCount(_, _)
SortByCount(items, acc) ==
    IF items = <<>> THEN acc
    ELSE SortByCount(Tail(items), InsertByCount(acc, Head(items)))

(* sorted(d.items(), key=lambda x: x[1], reverse=True)[:n] *)
TopItems(items, n) ==
    LET all == SortByCount(items, <<>>) IN SubSeq(all, 1, Min(n, Len(all)))

Line(sec, kind, name, n, label, count, fields) ==
    [sec |-> sec, kind |-> kind, name |-> name, n |-> n, label |-> label,
     count |-> count, fields |-> fields]

Header(sec) == Line(sec, "header", sec, 0, <<>>, 0, <<>>)

SectionLinesSkipEmpty(sec, lines) ==
    IF lines = <<>> THEN <<>> ELSE <<Header(sec)>> \o lines

(* a section of the f-string: its literal header, then its generated lines *)
SectionLines(sec, lines) == <<Header(sec)>> \o lines

ItemLines(sec, items) ==
    [i \in 1..Len(items) |-> Line(sec, "item", "", i, KeyText(items[i].k), items[i].v, <<>>)]

TimelineLines(timeline) ==
    [i \in 1..Len(timeline) |->
        Line("timeline", "day", timeline[i].date, i, <<>>, timeline[i].count, <<>>)]

StatLines(st) ==
    <<Line("overview", "stat", "total_incidents", 0, <<>>, st.total_incidents, <<>>),
      Line("overview", "stat", "daily_average", 0, <<>>, st.daily_average, <<>>),
      Line("overview", "stat", "critical_count", 0, <<>>, st.critical_count, <<>>),
      Line("overview", "stat", "top_country", 0, KeyText(st.top_country), 0, <<>>),
      Line("overview", "stat", "top_incident_type", 0, KeyText(st.top_incident_type), 0, <<>>),
      Line("overview", "stat", "top_srcip", 0, KeyText(st.top_srcip), st.top_srcip_count, <<>>)>>

(* incident.get(name, 'N/A') inside an f-string *)
Shown(field) ==
    CASE field.st = "missing" -> [lit |-> "N/A", val |-> 0]
      [] field.st = "null" -> [lit |-> "None", val |-> 0]
      [] field.st = "val" -> [lit |-> "", val |-> field.val]

(* ', '.join(incident.get('rule_groups', [])) *)
ShownGroups(field) ==
    CASE field.st = "missing" -> Ok(<<>>)
      [] field.st = "null" -> Raise("TypeError")
      [] field.st = "val" -> Ok(field.val)

(* incident.get('full_log', 'N/A')[:200] *)
ShownLog(field) ==
    CASE field.st = "missing" -> Ok([lit |-> "N/A", val |-> 0])
      [] field.st = "null" -> Raise("TypeError")
      [] field.st = "val" ->
            Ok([lit |-> "", val |-> [text |-> field.val.text,
                                     len |-> Min(field.val.len, LogCap)]])

IncidentRaises(incident) ==
    ~IsOk(ShownGroups(incident.rule_groups)) \/ ~IsOk(ShownLog(incident.full_log))

IncidentLine(i, incident) ==
    Line("samples", "incident", "", i, <<>>, 0,
         <<[timestamp |-> Shown(incident.timestamp),
            agent_name |-> Shown(incident.agent_name),
            rule_level |-> Shown(incident.rule_level),
            rule_description |-> Shown(incident.rule_description),
            rule_groups |-> ShownGroups(incident.rule_groups).val,
            country_name |-> Shown(incident.country_name),
            src_ip |-> Shown(incident.src_ip),
            url |-> Shown(incident.url),
            full_log |-> ShownLog(incident.full_log).val]>>)

AllSamples(sample_incidents) == sample_incidents

(* incident_data["sample_incidents"][:200] *)
Shown_samples(sample_incidents) ==
    SubSeq(sample_incidents, 1, Min(SampleCap, Len(sample_incidents)))

format_data_for_llm_analysis(incident_data) ==
    LET st == incident_data.statistics
        aggs == incident_data.aggregations
        top_regions == TopItems(aggs.regions, TopN)
        top_types == TopItems(aggs.types, TopN)
        top_agents == TopItems(aggs.agents, TopN)
        top_decoders == TopItems(aggs.decoders, TopN)
        top_srcips == TopItems(aggs.srcips, TopSrcips)
        severity_dist == SortedItems(aggs.severity)
        shown == Shown_samples(incident_data.sample_incidents)
    IN  IF ~IsOk(severity_dist) THEN severity_dist
        ELSE IF \E i \in 1..Len(shown) : IncidentRaises(shown[i])
        THEN Raise("TypeError")
        ELSE Ok(SectionLines("overview", StatLines(st))
                \o SectionLines("severity", ItemLines("severity", severity_dist.val))
                \o SectionLines("timeline", TimelineLines(aggs.timeline))
                \o SectionLines("regions", ItemLines("regions", top_regions))
                \o SectionLines("types", ItemLines("types", top_types))
                \o SectionLines("agents", ItemLines("agents", top_agents))
                \o SectionLines("decoders", ItemLines("decoders", top_decoders))
                \o SectionLines("srcips", ItemLines("srcips", top_srcips))
                \o SectionLines("samples",
                                [i \in 1..Len(shown) |-> IncidentLine(i, shown[i])]))

(* one section is malformed: null, a list instead of a mapping, a null    *)
(* bucket list, or a bucket without its key, date or count                 *)
MalformedSections(name) ==
    {[st |-> "null", buckets |-> <<>>], [st |-> "list", buckets |-> <<>>],
     [st |-> "nullbuckets", buckets |-> <<>>]}
    \cup (IF name = "timeline"
          THEN {Section(<<TimeBucket("2025-01-01", 1),
                          [key_as_string |-> None, doc_count |-> Some(1)]>>),
                Section(<<[key_as_string |-> Some("2025-01-01"), doc_count |-> None]>>)}
          ELSE {Section(<<Bucket(Czechia, 1), [key |-> None, doc_count |-> Some(1)]>>),
                Section(<<[key |-> Some(Czechia), doc_count |-> None]>>)})

MalformedDocs ==
    UNION {{[DefaultDoc EXCEPT !.aggregations =
                   Some([DefaultSections EXCEPT ![name] = section])] :
               section \in MalformedSections(name)} :
           name \in DOMAIN DefaultSections}

(* one dimension holds n keys, "N/A" at a place of its own, with counts    *)
(* that repeat and are not in order                                        *)
ManyKey(i, na) == IF i = na THEN NA ELSE StrKey(<<"k">> \o NatToStr(i))

ManyBuckets(n, na, step, modulus) ==
    [i \in 1..n |-> Bucket(ManyKey(i, na), (i * step) % modulus)]

TopDocs ==
    {[DefaultDoc EXCEPT !.aggregations =
          Some([DefaultSections EXCEPT ![name] = Section(ManyBuckets(n, 3, p[1], p[2]))])] :
        name \in {"by_region", "by_groups", "by_agent", "by_decoder", "by_srcip"},
        n \in 0..MaxTopKeys,
        p \in {<<1, 4>>, <<3, 5>>, <<0, 1>>}}

Docs ==
    SeverityDocs \cup RankDocs \cup DaysDocs \cup SparseDocs \cup SampleDocs
    \cup OddSampleDocs \cup MixedDocs \cup TimelineDocs \cup TopDocs \cup MalformedDocs \cup {ScenarioDoc, ToolErrorDoc}

-----------------------------------------------------------------------------
(* The pipeline: extract_incident_data_from_mcp_response, then the         *)
(* formatter, as main() runs them on one tool response.                    *)

DefaultDays == 7

NoErrorKey(raw_data) == FALSE

(* "error" in raw_data *)
HasErrorKey(raw_data) == raw_data.error

(* raw_data.get("total_hits", 0) *)
TotalHitsOf(raw_data) == Get(raw_data.total_hits, 0)

(* raw_data.get("query_info", {}).get("days", 7) *)
DaysOf(raw_data) == Get(raw_data.days, DefaultDays)

(* every exception inside the try block leaves the call as a ValueError *)
Wrapped(cause) == Some([type |-> "ValueError", cause |-> cause])

(* main() is not running, nothing else is being called *)
RestIdle == agent = None /\ pdf = None /\ chat = None

(* no tool call is in progress *)
ToolIdle == req = None /\ tpc = "idle" /\ work = None /\ resp = None

Init ==
    /\ doc \in Docs
    /\ pc = "load"
    /\ parsed_aggs = None
    /\ stats = None
    /\ result = None
    /\ raised = None
    /\ formatted = None
    /\ formatted_again = None
    /\ ToolIdle
    /\ RestIdle

(* json.loads and the check for an upstream error *)
CheckResponse ==
    /\ pc = "load"
    /\ IF doc.json = "invalid"
       THEN pc' = "raised" /\ raised' = Wrapped("JSONDecodeError")
       ELSE IF HasErrorKey(doc)
       THEN /\ pc' = "raised"
            /\ raised' = Wrapped(IF doc.json = "object" THEN "ValueError" ELSE "TypeError")
       ELSE pc' = "parse" /\ raised' = raised
    /\ UNCHANGED <<doc, parsed_aggs, stats, result, formatted>>
    /\ UNCHANGED <<formatted_again, tool, rest>>

ParseAggregations ==
    /\ pc = "parse"
    /\ LET r == IF doc.json = "object"
                THEN parse_aggregations(AggregationsOf(doc))
                ELSE Raise("AttributeError")
       IN  IF IsOk(r)
           THEN pc' = "stats" /\ parsed_aggs' = Some(r.val) /\ raised' = raised
           ELSE pc' = "raised" /\ raised' = Wrapped(r.exc) /\ parsed_aggs' = parsed_aggs
    /\ UNCHANGED <<doc, stats, result, formatted>>
    /\ UNCHANGED <<formatted_again, tool, rest>>

(* a calculator that removes the sentinel from the mappings it was given *)
CalculateStatisticsPopping ==
    /\ pc = "stats"
    /\ LET r == calculate_statistics(TotalHitsOf(doc), parsed_aggs[1], DaysOf(doc))
       IN  IF IsOk(r)
           THEN pc' = "combine" /\ stats' = Some(r.val) /\ raised' = raised
           ELSE pc' = "raised" /\ raised' = Wrapped(r.exc) /\ stats' = stats
    /\ parsed_aggs' = Some([parsed_aggs[1] EXCEPT !.regions = FilterItems(@, NA),
                                                  !.types = FilterItems(@, NA),
                                                  !.srcips = FilterItems(@, NA)])
    /\ UNCHANGED <<doc, result, formatted>>
    /\ UNCHANGED <<formatted_again, tool, rest>>

CalculateStatistics ==
    /\ pc = "stats"
    /\ LET r == calculate_statistics(TotalHitsOf(doc), parsed_aggs[1], DaysOf(doc))
       IN  IF IsOk(r)
           THEN pc' = "combine" /\ stats' = Some(r.val) /\ raised' = raised
           ELSE pc' = "raised" /\ raised' = Wrapped(r.exc) /\ stats' = stats
    /\ UNCHANGED <<doc, parsed_aggs, result, formatted>>
    /\ UNCHANGED <<formatted_again, tool, rest>>

BuildResult ==
    /\ pc = "combine"
    /\ result' = Some([total_hits |-> TotalHitsOf(doc),
                       statistics |-> stats[1],
                       aggregations |-> parsed_aggs[1],
                       sample_incidents |-> Get(doc.sample_incidents, <<>>)])
    /\ pc' = "returned"
    /\ UNCHANGED <<doc, parsed_aggs, stats, raised, formatted>>
    /\ UNCHANGED <<formatted_again, tool, rest>>

(* a formatter that takes the samples out of the list it was given *)
FormatForLlmConsuming ==
    /\ pc = "returned"
    /\ LET r == format_data_for_llm_analysis(result[1])
       IN  IF IsOk(r)
           THEN pc' = "formatted" /\ formatted' = Some(r.val) /\ raised' = raised
           ELSE /\ pc' = "format_raised"
                /\ raised' = Some([type |-> r.exc, cause |-> r.exc])
                /\ formatted' = formatted
    /\ result' = Some([result[1] EXCEPT !.sample_incidents = <<>>])
    /\ UNCHANGED <<doc, parsed_aggs, stats, formatted_again, tool, rest>>

FormatForLlm ==
    /\ pc = "returned"
    /\ LET r == format_data_for_llm_analysis(result[1])
       IN  IF IsOk(r)
           THEN pc' = "formatted" /\ formatted' = Some(r.val) /\ raised' = raised
           ELSE /\ pc' = "format_raised"
                /\ raised' = Some([type |-> r.exc, cause |-> r.exc])
                /\ formatted' = formatted
    /\ UNCHANGED <<doc, parsed_aggs, stats, result>>
    /\ UNCHANGED <<formatted_again, tool, rest>>

(* a second call of the formatter on the incident_data the first one read *)
FormatAgain ==
    /\ pc = "formatted"
    /\ LET r == format_data_for_llm_analysis(result[1])
       IN  IF IsOk(r)
           THEN pc' = "formatted_again" /\ formatted_again' = Some(r.val) /\ raised' = raised
           ELSE /\ pc' = "format_raised"
                /\ raised' = Some([type |-> r.exc, cause |-> r.exc])
                /\ formatted_again' = formatted_again
    /\ UNCHANGED <<doc, parsed_aggs, stats, result, formatted, tool, rest>>

Next ==
    \/ CheckResponse
    \/ ParseAggregations
    \/ CalculateStatistics
    \/ BuildResult
    \/ FormatForLlm
    \/ FormatAgain

Spec == Init /\ [][Next]_vars

-----------------------------------------------------------------------------
(* The MCP server of lekce_9/mcp_server: handle_call_tool dispatches a     *)
(* request to search_wazuh_incidents or web_search. A request carries the  *)
(* tool name, the arguments as the client sent them (an int or a str for   *)
(* the numbers) and the date of the server's clock during the call.        *)

MaxPatternDays == 4
MaxHits == 2
MaxFound == 3

ServerDefaultDays == 7
DefaultMaxSampleSize == 1000
DefaultMaxResults == 5
MaxResultsLimit == 20
LogKeep == 500

Date(y, m, d) == [y |-> y, m |-> m, d |-> d]

(* the proleptic Gregorian ordinal of datetime: 0001-01-01 is day 1 *)
DaysBeforeMonth == <<0, 31, 59, 90, 120, 151, 181, 212, 243, 273, 304, 334>>
DaysInMonth == <<31, 28, 31, 30, 31, 30, 31, 31, 30, 31, 30, 31>>

IsLeap(y) == y % 4 = 0 /\ (y % 100 # 0 \/ y % 400 = 0)

ToOrdinal(date) ==
    LET y == date.y - 1
    IN  y * 365 + y \div 4 - y \div 100 + y \div 400
        + DaysBeforeMonth[date.m] + (IF date.m > 2 /\ IsLeap(date.y) THEN 1 ELSE 0)
        + date.d

FromOrdinal(ordinal) ==
    LET n0 == ordinal - 1
        n400 == n0 \div 146097
        r400 == n0 % 146097
        n100 == r400 \div 36524
        r100 == r400 % 36524
        n4 == r100 \div 1461
        r4 == r100 % 1461
        n1 == r4 \div 365
        n == r4 % 365
        year == n400 * 400 + 1 + n100 * 100 + n4 * 4 + n1
        leap == n1 = 3 /\ (n4 # 24 \/ n100 = 3)
        month == (n + 50) \div 32
        preceding == DaysBeforeMonth[month] + (IF month > 2 /\ leap THEN 1 ELSE 0)
        before == preceding - (DaysInMonth[month - 1]
                               + (IF month - 1 = 2 /\ leap THEN 1 ELSE 0))
    IN  IF n1 = 4 \/ n100 = 4 THEN Date(year - 1, 12, 31)
        ELSE IF preceding > n THEN Date(year, month - 1, n - before + 1)
        ELSE Date(year, month, n - preceding + 1)

RECURSIVE ZeroPad(_, _)
ZeroPad(s, width) == IF Len(s) >= width THEN s ELSE ZeroPad(<<"0">> \o s, width)

(* strftime('%Y<sep>%m<sep>%d') *)
DateText(date, sep) ==
    ZeroPad(NatToStr(date.y), 4) \o <<sep>> \o ZeroPad(NatToStr(date.m), 2)
    \o <<sep>> \o ZeroPad(NatToStr(date.d), 2)

IndexPrefix ==
    <<"w", "a", "z", "u", "h", "-", "a", "l", "e", "r", "t", "s", "-", "4", ".", "x", "-">>

RECURSIVE Join(_, _)
Join(strs, sep) ==
    IF strs = <<>> THEN <<>>
    ELSE IF Len(strs) = 1 THEN strs[1]
    ELSE strs[1] \o <<sep>> \o Join(Tail(strs), sep)

StartOrdinalFullSpan(end_date, days) == end_date - days

(* end_date - timedelta(days=days-1) *)
StartOrdinal(end_date, days) == end_date - (days - 1)

(* the while loop: one index name per day from current to end_date *)
RECURSIVE IndicesFrom(_, _)
IndicesFrom(current, end_date) ==
    IF current > end_date THEN <<>>
    ELSE <<IndexPrefix \o DateText(FromOrdinal(current), ".")>>
         \o IndicesFrom(current + 1, end_date)

generate_index_pattern(days, now) ==
    LET end_date == ToOrdinal(now)
    IN  Join(IndicesFrom(StartOrdinal(end_date, days), end_date), ",")

(* query_body of search_wazuh_incidents *)
QueryBody(days, max_sample_size, query_type, now) ==
    [track_total_hits |-> TRUE,
     gte |-> [date |-> DateText(FromOrdinal(StartOrdinal(ToOrdinal(now), days)), "-"),
              time |-> "00:00:00"],
     lte |-> [date |-> DateText(now, "-"), time |-> "23:59:59"],
     size |-> IF query_type = "all" THEN max_sample_size ELSE 0,
     sort |-> "timestamp desc",
     aggs |-> IF query_type = "all" THEN Some(AggNames) ELSE None]

HitFields ==
    {"timestamp", "agent_name", "agent_ip", "rule_level", "rule_description",
     "rule_groups", "decoder_name", "region_name", "country_name", "src_ip", "url",
     "full_log"}

(* the _source of a hit, flattened to the fields the tool reads *)
FullSource ==
    [f \in HitFields |->
        CASE f = "rule_groups" -> Val(<<1, 7>>)
          [] f = "full_log" -> LogText(1, 600)
          [] OTHER -> Val(1)]

BareSource == [f \in HitFields |-> Missing]

(* the incident built from a hit: .get(name) gives None for an absent     *)
(* field, rule_groups defaults to [], full_log to "" and is cut to 500     *)
IncidentOf(source) ==
    [f \in HitFields |->
        CASE f = "rule_groups" ->
                IF source[f].st = "missing" THEN Val(<<>>) ELSE source[f]
          [] f = "full_log" ->
                IF source[f].st = "missing" THEN LogText(0, 0)
                ELSE LogText(source[f].val.text, Min(source[f].val.len, LogKeep))
          [] OTHER -> IF source[f].st = "missing" THEN Null ELSE source[f]]

(* what handle_call_tool returns: one text content item; the text of an   *)
(* error is "Tool execution error: " and the parts of str(e)              *)
JsonText(document) == <<[type |-> "text", kind |-> "json", doc |-> Some(document), msg |-> <<>>]>>
ErrorText(msg) == <<[type |-> "text", kind |-> "error", doc |-> None, msg |-> msg]>>

SearchResult(w, query, total, hits, aggregations) ==
    [error |-> None,
     query_info |-> [start_date |-> Some(query.gte), end_date |-> Some(query.lte),
                     days |-> w.days, index_pattern |-> Some(w.index_pattern),
                     max_sample_size |-> w.max_sample_size, query_type |-> None],
     total_hits |-> Some(total),
     sample_incidents |-> Some([i \in 1..Len(hits) |-> IncidentOf(hits[i])]),
     aggregations |-> aggregations]

SearchError(w, msg) ==
    [error |-> Some(msg),
     query_info |-> [start_date |-> None, end_date |-> None, days |-> w.days,
                     index_pattern |-> None, max_sample_size |-> w.max_sample_size,
                     query_type |-> Some(w.query_type)],
     total_hits |-> None, sample_incidents |-> None, aggregations |-> None]

(* web_search *)
FoundItems ==
    {[title |-> Some("t1"), href |-> Some("u1"), body |-> Some("b1")],
     [title |-> Some("t2"), href |-> None, body |-> Some("b2")],
     [title |-> None, href |-> None, body |-> None]}

(* for idx, result in enumerate(search_results, start=1) *)
FormatResults(search_results) ==
    [idx \in 1..Len(search_results) |->
        [position |-> idx,
         title |-> Get(search_results[idx].title, ""),
         url |-> Get(search_results[idx].href, ""),
         snippet |-> Get(search_results[idx].body, "")]]

WebResponse(w, formatted_results) ==
    [error |-> None,
     query_info |-> [query |-> w.query, max_results |-> w.max_results, region |-> w.region],
     total_results |-> Some(Len(formatted_results)),
     results |-> Some(formatted_results)]

WebError(w, msg) ==
    [error |-> Some(msg),
     query_info |-> [query |-> w.query, max_results |-> w.max_results, region |-> w.region],
     total_results |-> None, results |-> None]

IsEmptyQuery(query) == query = <<>>

(* not query or not query.strip() *)
IsBlank(query) == query = <<>> \/ Strip(query) = <<>>

(* Requests *)
Todays ==
    {Date(2024, 2, 29), Date(2024, 3, 1), Date(2024, 12, 31), Date(2025, 1, 1),
     Date(2025, 3, 1), Date(2026, 11, 1), Date(2000, 3, 1), Date(2100, 3, 2)}

NoArguments ==
    [days |-> None, max_sample_size |-> None, query_type |-> None,
     query |-> None, max_results |-> None, region |-> None]

SearchRequests ==
    {[name |-> "search_wazuh_incidents", now |-> t,
      arguments |-> [NoArguments EXCEPT !.days = d, !.max_sample_size = m,
                                        !.query_type = q]] :
        t \in Todays,
        d \in {None, Some(StrKey(<<"3">>)), Some(StrKey(<<"x">>))}
              \cup {Some(IntKey(n)) : n \in -1..MaxPatternDays},
        m \in {None, Some(IntKey(0)), Some(IntKey(MaxHits)), Some(StrKey(<<"1">>)),
               Some(StrKey(<<"1", ".", "5">>))},
        q \in {None, Some("all"), Some("sample"), Some("count")}}

WebRequests ==
    {[name |-> "web_search", now |-> Date(2026, 11, 1),
      arguments |-> [NoArguments EXCEPT !.query = q, !.max_results = m, !.region = r]] :
        q \in {None, Some(<<>>), Some(<<" ", " ">>), Some(<<"a">>),
               Some(<<" ", "a", " ", "b", " ">>)},
        m \in {None, Some(StrKey(<<"2">>)), Some(StrKey(<<"x">>))}
              \cup {Some(IntKey(n)) : n \in {-1, 0, 1, MaxFound - 1, 20, 21}},
        r \in {None, Some("cs-cz")}}

OtherRequests ==
    {[name |-> n, now |-> Date(2026, 11, 1), arguments |-> a] :
        n \in {"get_weather", "search_wazuh", ""},
        a \in {NoArguments,
               [NoArguments EXCEPT !.days = Some(StrKey(<<"x">>)),
                                   !.max_results = Some(IntKey(1))]}}

Requests == SearchRequests \cup WebRequests \cup OtherRequests

ToolsInit ==
    /\ doc = DefaultDoc
    /\ pc = "load"
    /\ parsed_aggs = None
    /\ stats = None
    /\ result = None
    /\ raised = None
    /\ formatted = None
    /\ formatted_again = None
    /\ req \in {Some(r) : r \in Requests}
    /\ tpc = "call"
    /\ work = None
    /\ resp = None
    /\ RestIdle

analyzer == <<doc, pc, parsed_aggs, stats, result, raised, formatted, formatted_again>>

(* handle_call_tool: the dispatch on the name and the int() of str numbers *)
HandleCallTool ==
    /\ tpc = "call"
    /\ LET name == req[1].name
           arguments == req[1].arguments
           days == IntOf(Get(arguments.days, IntKey(ServerDefaultDays)))
           max_sample_size ==
               IntOf(Get(arguments.max_sample_size, IntKey(DefaultMaxSampleSize)))
           max_results == IntOf(Get(arguments.max_results, IntKey(DefaultMaxResults)))
       IN  CASE name = "search_wazuh_incidents" ->
                  IF days = None \/ max_sample_size = None
                  THEN /\ tpc' = "done" /\ work' = work
                       /\ resp' = ErrorText(<<"invalid literal for int() with base 10: ",
                                              IF days = None THEN arguments.days[1].s
                                              ELSE arguments.max_sample_size[1].s>>)
                  ELSE /\ tpc' = "search"
                       /\ work' = Some([fn |-> name, days |-> days[1],
                                        max_sample_size |-> max_sample_size[1],
                                        query_type |-> Get(arguments.query_type, "all"),
                                        index_pattern |-> <<>>, issued |-> None])
                       /\ resp' = resp
             [] name = "web_search" ->
                  IF max_results = None
                  THEN /\ tpc' = "done" /\ work' = work
                       /\ resp' = ErrorText(<<"invalid literal for int() with base 10: ",
                                              arguments.max_results[1].s>>)
                  ELSE /\ tpc' = "web"
                       /\ work' = Some([fn |-> name,
                                        query |-> Get(arguments.query, <<>>),
                                        max_results |-> max_results[1],
                                        region |-> Get(arguments.region, "wt-wt"),
                                        issued |-> None, found |-> None])
                       /\ resp' = resp
             [] OTHER ->
                  /\ tpc' = "done" /\ work' = work
                  /\ resp' = ErrorText(<<"Unknown tool: ", name>>)
    /\ UNCHANGED <<rest, analyzer, req>>

(* search_wazuh_incidents up to client.search: the index pattern and the   *)
(* query body, both from one reading of the clock                          *)
BuildQuery ==
    /\ tpc = "search"
    /\ LET w == work[1]
       IN  work' = Some([w EXCEPT
               !.index_pattern = generate_index_pattern(w.days, req[1].now),
               !.issued = Some(QueryBody(w.days, w.max_sample_size,
                                         w.query_type, req[1].now))])
    /\ tpc' = "await_opensearch"
    /\ UNCHANGED <<rest, analyzer, req, resp>>

(* client.search answers or raises; the result document is built from the  *)
(* answer. OpenSearch returns at most `size` hits, newest first, and       *)
(* aggregations exactly when the query asked for them.                     *)
OpenSearchAnswers ==
    /\ tpc = "await_opensearch"
    /\ LET w == work[1]
           query == w.issued[1]
       IN  \/ resp' = JsonText(SearchError(w, "search failed"))
           \/ /\ query.size >= 0
              /\ \E hits \in SeqsUpTo({FullSource, BareSource}, Min(query.size, MaxHits)) :
                 \E total \in Len(hits)..MaxHits :
                    resp' = JsonText(SearchResult(w, query, total, hits,
                                IF query.aggs = None THEN None ELSE Some(DefaultSections)))
    /\ tpc' = "done"
    /\ UNCHANGED <<rest, analyzer, req, work>>

(* web_search up to the search: the validation of query and max_results *)
ValidateWebSearch ==
    /\ tpc = "web"
    /\ LET w == work[1]
           stripped == [w EXCEPT !.query = Strip(w.query)]
       IN  IF IsBlank(w.query)
           THEN /\ resp' = JsonText(WebError(w, "Query cannot be empty"))
                /\ tpc' = "done" /\ work' = work
           ELSE IF w.max_results < 1 \/ w.max_results > MaxResultsLimit
           THEN /\ resp' = JsonText(WebError(stripped, "max_results must be between 1 and 20"))
                /\ tpc' = "done" /\ work' = Some(stripped)
           ELSE /\ work' = Some([stripped EXCEPT !.issued =
                                    Some([query |-> stripped.query, region |-> w.region,
                                          max_results |-> w.max_results])])
                /\ tpc' = "await_ddgs" /\ resp' = resp
    /\ UNCHANGED <<rest, analyzer, req>>

(* the DuckDuckGo search returns a list of results or raises *)
DdgsAnswers ==
    /\ tpc = "await_ddgs"
    /\ \/ /\ resp' = JsonText(WebError(work[1], "search failed"))
          /\ work' = work
       \/ \E search_results \in SeqsUpTo(FoundItems, MaxFound) :
             /\ work' = Some([work[1] EXCEPT !.found = Some(search_results)])
             /\ resp' = JsonText(WebResponse(work[1], FormatResults(search_results)))
    /\ tpc' = "done"
    /\ UNCHANGED <<rest, analyzer, req>>

ToolsNext ==
    \/ HandleCallTool
    \/ BuildQuery
    \/ OpenSearchAnswers
    \/ ValidateWebSearch
    \/ DdgsAnswers

ToolsSpec == ToolsInit /\ [][ToolsNext]_vars

-----------------------------------------------------------------------------
(* The agent workflow: main() of lekce_9/agent/main.py. It calls the       *)
(* search tool, hands the answer to the extraction, formats the result,    *)
(* asks the LLM for the analysis and generates the PDF report, all inside  *)
(* one try block whose handler prints the failure.                         *)

MinAnalysisLength == 100

(* the answers of the search tool that a run of main() may receive *)
MainDocs ==
    {DefaultDoc, ScenarioDoc, ToolErrorDoc} \cup MixedDocs \cup OddSampleDocs
    \cup MalformedDocs \cup SeverityDocs

AnswerLengths == {0, MinAnalysisLength - 1, MinAnalysisLength}

MainInit ==
    /\ doc \in MainDocs
    /\ pc = "load"
    /\ parsed_aggs = None
    /\ stats = None
    /\ result = None
    /\ raised = None
    /\ formatted = None
    /\ formatted_again = None
    /\ ToolIdle
    /\ pdf = None
    /\ chat = None
    /\ \E found \in BOOLEAN :
          agent = Some([mpc |-> "start", tool_found |-> found, calls |-> <<>>,
                        reported |-> FALSE, analysis |-> None, report |-> None])

AgentAt(mpc) == agent # None /\ agent[1].mpc = mpc

(* except Exception as e: print the failure *)
Failed(a) == [a EXCEPT !.mpc = "failed", !.reported = TRUE]

AfterCallSwallowing(a, outcome) ==
    IF a.mpc = "extract" /\ outcome = "returned" THEN [a EXCEPT !.mpc = "format"]
    ELSE [a EXCEPT !.mpc = "llm"]

(* where main() stands after extract_incident_data_from_mcp_response or   *)
(* format_data_for_llm_analysis has returned or raised                    *)
AfterCall(a, outcome) ==
    IF a.mpc = "extract" /\ outcome = "returned" THEN [a EXCEPT !.mpc = "format"]
    ELSE IF a.mpc = "format" /\ outcome = "formatted" THEN [a EXCEPT !.mpc = "llm"]
    ELSE Failed(a)

(* the search tool is looked up and invoked; its answer goes to the        *)
(* extraction                                                              *)
QueryIncidents ==
    /\ AgentAt("start")
    /\ LET a == agent[1]
       IN  IF ~a.tool_found
           THEN agent' = Some([a EXCEPT !.mpc = "ended"])
           ELSE \/ agent' = Some(Failed([a EXCEPT !.calls = <<"search_tool">>]))
                \/ agent' = Some([a EXCEPT !.mpc = "extract",
                                            !.calls = <<"search_tool", "extract">>])
    /\ UNCHANGED <<analyzer, tool, pdf, chat>>

(* the extraction or the formatter has left its call *)
CallReturns ==
    /\ \/ AgentAt("extract") /\ pc \in {"returned", "raised"}
       \/ AgentAt("format") /\ pc \in {"formatted", "format_raised"}
    /\ agent' = Some(AfterCall(agent[1], pc))
    /\ UNCHANGED <<analyzer, tool, pdf, chat>>

(* llm.ainvoke: it raises, or answers with a text of some length; a text   *)
(* shorter than 100 characters is replaced by the fallback sentence        *)
InvokeLlm ==
    /\ AgentAt("llm")
    /\ LET a == [agent[1] EXCEPT !.calls = Append(@, "llm")]
       IN  \/ agent' = Some(Failed(a))
           \/ \E length \in AnswerLengths :
                 agent' = Some([a EXCEPT !.mpc = "pdf",
                                         !.analysis = Some(IF length < MinAnalysisLength
                                                           THEN "fallback" ELSE "answer")])
    /\ UNCHANGED <<analyzer, tool, pdf, chat>>

(* generate_pdf_report(incident_data, analysis, output_file, logo_path) *)
GeneratePdf ==
    /\ AgentAt("pdf")
    /\ LET a == [agent[1] EXCEPT !.calls = Append(@, "pdf")]
       IN  \/ agent' = Some(Failed(a))
           \/ agent' = Some([a EXCEPT !.mpc = "done",
                                       !.report = Some([incident_data |-> result[1],
                                                        analysis |-> a.analysis[1]])])
    /\ UNCHANGED <<analyzer, tool, pdf, chat>>

MainNext ==
    \/ QueryIncidents
    \/ AgentAt("extract") /\ CheckResponse
    \/ AgentAt("extract") /\ ParseAggregations
    \/ AgentAt("extract") /\ CalculateStatistics
    \/ AgentAt("extract") /\ BuildResult
    \/ AgentAt("format") /\ FormatForLlm
    \/ CallReturns
    \/ InvokeLlm
    \/ GeneratePdf

MainSpec == MainInit /\ [][MainNext]_vars

-----------------------------------------------------------------------------
(* extract_recommendations of lekce_9/agent/pdf_generator.py: the loop     *)
(* over the lines of the analysis text. A Czech letter with a diacritic is *)
(* one character, written here as the letter and its mark ("c^" is c with  *)
(* caron, "a'" is a with acute).                                           *)

MaxLines == 3

UpperChars ==
    <<"A", "B", "C", "D", "E", "F", "G", "H", "I", "J", "K",
      "L", "M", "N", "O", "P", "Q", "R", "S", "T", "U", "V", "W", "X", "Y",
      "Z", "A'", "C^", "I'">>

LowerChars ==
    <<"a", "b", "c", "d", "e", "f", "g", "h", "i", "j", "k",
      "l", "m", "n", "o", "p", "q", "r", "s", "t", "u", "v", "w", "x", "y",
      "z", "a'", "c^", "i'">>

Strategick == <<"s", "t", "r", "a", "t", "e", "g", "i", "c", "k">>

Doporuc == <<"d", "o", "p", "o", "r", "u", "c^">>

Taktick == <<"t", "a", "k", "t", "i", "c", "k">>

UpperStrategicHeader ==
    <<"S", "T", "R", "A", "T", "E", "G", "I", "C",
      "K", "A'", " ", "D", "O", "P", "O", "R", "U", "C^", "E", "N", "I'">>

MarkedTacticalHeader ==
    <<"#", "#", " ", "T", "a", "k", "t", "i", "c",
      "k", "a'", " ", "d", "o", "p", "o", "r", "u", "c^", "e", "n", "i'">>

BothHeader ==
    <<"S", "t", "r", "a", "t", "e", "g", "i", "c", "k", "a'",
      " ", "a", " ", "t", "a", "k", "t", "i", "c", "k", "a'", " ", "d",
      "o", "p", "o", "r", "u", "c^", "e", "n", "i'">>

TacticalWord ==
    <<"t", "a", "k", "t", "i", "c", "k", "a'", " ", "o",
      "b", "r", "a", "n", "a">>

PlainLine ==
    <<"1", ".", " ", "B", "l", "o", "k", "o", "v", "a", "t",
      " ", "I", "P">>

IndentedLine ==
    <<" ", " ", "z", "k", "o", "n", "t", "r", "o", "l",
      "o", "v", "a", "t", " ", "l", "o", "g", "y", " ">>

EmptyLine ==
    <<>>

BlankLine ==
    <<" ", " ", " ">>

BoldLine ==
    <<"*", "*", "D", "o", "p", "o", "r", "u", "c^", "e", "n",
      "i'", "*", "*">>

AnalysisLines ==
    {UpperStrategicHeader, MarkedTacticalHeader, BothHeader, TacticalWord, PlainLine,
     IndentedLine, EmptyLine, BlankLine, BoldLine}

NewLine == "\n"

(* a few longer texts: an introduction, both sections, marked headers *)
SampleAnalyses ==
    {<<PlainLine, UpperStrategicHeader, EmptyLine, IndentedLine, PlainLine,
       MarkedTacticalHeader, BoldLine, BlankLine, TacticalWord>>,
     <<MarkedTacticalHeader, PlainLine, BothHeader, IndentedLine, MarkedTacticalHeader>>,
     <<BoldLine, PlainLine, BlankLine, TacticalWord, IndentedLine>>}

(* str.lower() *)
Lower(s) ==
    [i \in 1..Len(s) |->
        IF \E k \in 1..Len(UpperChars) : UpperChars[k] = s[i]
        THEN LowerChars[CHOOSE k \in 1..Len(UpperChars) : UpperChars[k] = s[i]]
        ELSE s[i]]

(* sub in s *)
Contains(s, sub) ==
    \E i \in 0..(Len(s) - Len(sub)) : SubSeq(s, i + 1, i + Len(sub)) = sub

Whitespace == {" ", NewLine}

(* str.strip() *)
RECURSIVE PyStrip(_)
PyStrip(s) ==
    IF s = <<>> THEN s
    ELSE IF Head(s) \in Whitespace THEN PyStrip(Tail(s))
    ELSE IF s[Len(s)] \in Whitespace THEN PyStrip(SubSeq(s, 1, Len(s) - 1))
    ELSE s

SectionAfterTacticalFirst(line, current_section) ==
    LET line_lower == Lower(line)
    IN  IF Contains(line_lower, Taktick) /\ Contains(line_lower, Doporuc)
        THEN [section |-> "tactical", header |-> TRUE]
        ELSE IF Contains(line_lower, Strategick) /\ Contains(line_lower, Doporuc)
        THEN [section |-> "strategic", header |-> TRUE]
        ELSE [section |-> current_section, header |-> FALSE]

(* the if/elif chain on a line: the section after it, and whether the     *)
(* line was a header (continue)                                            *)
SectionAfter(line, current_section) ==
    LET line_lower == Lower(line)
    IN  IF Contains(line_lower, Strategick) /\ Contains(line_lower, Doporuc)
        THEN [section |-> "strategic", header |-> TRUE]
        ELSE IF Contains(line_lower, Taktick) /\ Contains(line_lower, Doporuc)
        THEN [section |-> "tactical", header |-> TRUE]
        ELSE [section |-> current_section, header |-> FALSE]

PdfInit ==
    /\ doc = DefaultDoc
    /\ pc = "load"
    /\ parsed_aggs = None
    /\ stats = None
    /\ result = None
    /\ raised = None
    /\ formatted = None
    /\ formatted_again = None
    /\ ToolIdle
    /\ agent = None
    /\ chat = None
    /\ \E ls \in SeqsUpTo(AnalysisLines, MaxLines) \cup SampleAnalyses :
          pdf = Some([analysis_text |-> Join(ls, NewLine),
                      lines |-> SplitOn(Join(ls, NewLine), NewLine),
                      i |-> 1, current_section |-> "none",
                      strategic |-> <<>>, tactical |-> <<>>, returned |-> None])

(* one turn of the for loop *)
ReadLine ==
    /\ pdf # None
    /\ pdf[1].returned = None
    /\ pdf[1].i <= Len(pdf[1].lines)
    /\ LET p == pdf[1]
           line == p.lines[p.i]
           after == SectionAfter(line, p.current_section)
           kept == ~after.header /\ PyStrip(line) # <<>>
       IN  pdf' = Some([p EXCEPT
               !.i = p.i + 1,
               !.current_section = after.section,
               !.strategic = IF kept /\ after.section = "strategic"
                             THEN p.strategic \o line \o <<NewLine>> ELSE p.strategic,
               !.tactical = IF kept /\ after.section = "tactical"
                            THEN p.tactical \o line \o <<NewLine>> ELSE p.tactical])
    /\ UNCHANGED <<analyzer, tool, agent, chat>>

(* after the loop: the whole text if nothing was collected *)
ReturnRecommendations ==
    /\ pdf # None
    /\ pdf[1].returned = None
    /\ pdf[1].i > Len(pdf[1].lines)
    /\ LET p == pdf[1]
       IN  pdf' = Some([p EXCEPT !.returned =
               IF p.strategic = <<>> /\ p.tactical = <<>>
               THEN Some([strategic |-> p.analysis_text, tactical |-> <<>>])
               ELSE Some([strategic |-> PyStrip(p.strategic),
                          tactical |-> PyStrip(p.tactical)])])
    /\ UNCHANGED <<analyzer, tool, agent, chat>>

PdfNext ==
    \/ ReadLine
    \/ ReturnRecommendations

PdfSpec == PdfInit /\ [][PdfNext]_vars

-----------------------------------------------------------------------------
(* get_completion_from_messages of lekce_1/main-start.py: one model       *)
(* request, the function the model asks for, and a second request.         *)

MaxHistory == 2

available_functions == {"get_stock_price", "get_dividend_date", "get_tomorrow_weather"}

NoFunctionCallText == "No relevant function call found."

(* types.Part: every field optional *)
TextPart(text) ==
    [text |-> Some(text), function_call |-> None, function_response |-> None]
CallPart(name, args) ==
    [text |-> None, function_call |-> Some([name |-> name, args |-> args]),
     function_response |-> None]
ResponsePart(name, function_response) ==
    [text |-> None, function_call |-> None,
     function_response |-> Some([name |-> name,
                                 response |-> <<[k |-> "result", v |-> function_response]>>])]

(* types.Content *)
Content(role, parts) == [role |-> role, parts |-> parts]

(* the messages list the caller passes in *)
Prompts == {Content("user", <<TextPart("Jake bude zitra pocasi v Hradci Kralove?")>>),
            Content("user", <<TextPart("GOOG price?")>>)}
Conversations == UNION {[1..n -> Prompts] : n \in 1..MaxHistory}

(* keyword arguments the model may send *)
CallArgs ==
    {None,
     Some(<<[k |-> "city_name", v |-> "Hradec Kralove"]>>),
     Some(<<[k |-> "ticker", v |-> "GOOG"]>>),
     Some(<<[k |-> "ticker", v |-> "GOOG"], [k |-> "exchange", v |-> "NASDAQ"]>>)}

(* candidates[0].content of a response, and its text *)
ModelResponses ==
    {[content |-> Content("model", <<TextPart(t)>>), text |-> Some(t)] :
        t \in {"Zitra bude jasno.", ""}}
    \cup {[content |-> Content("model", <<CallPart(name, args)>>), text |-> None] :
            name \in available_functions \cup {"get_weather", ""}, args \in CallArgs}
    \cup {[content |-> Content("model", <<TextPart("Zjistim to."),
                                          CallPart("get_stock_price",
                                                   Some(<<[k |-> "ticker", v |-> "GOOG"]>>))>>),
           text |-> Some("Zjistim to.")],
          [content |-> Content("model", <<>>), text |-> None]}

ArgKeys(args) == {args[i].k : i \in 1..Len(args)}

(* the call of function_to_call binds the keywords to the signature *)
Binds(name, args) ==
    /\ args # None
    /\ IF name = "get_tomorrow_weather"
       THEN /\ "city_name" \in ArgKeys(args[1])
            /\ ArgKeys(args[1]) \subseteq {"city_name", "api_key"}
       ELSE ArgKeys(args[1]) = {"ticker"}

(* what the registered functions return or raise *)
FunctionOutcomes(name, args) ==
    IF ~Binds(name, args) THEN {Raise("TypeError")}
    ELSE IF name = "get_stock_price"
    THEN {Ok(Some(<<[k |-> "ticker", v |-> Some(Lookup(args[1], "ticker", ""))],
                    [k |-> "current_price", v |-> price]>>)) : price \in {None, Some(190)}}
         \cup {Raise("Exception")}
    ELSE IF name = "get_dividend_date"
    THEN {Ok(Some(<<[k |-> "ticker", v |-> Some(Lookup(args[1], "ticker", ""))],
                    [k |-> "dividend_date", v |-> when]>>)) : when \in {None, Some(1765756800)}}
         \cup {Raise("Exception")}
    ELSE {Ok(None),
          Ok(Some(<<[k |-> "city", v |-> Some(Lookup(args[1], "city_name", ""))],
                    [k |-> "date", v |-> Some("02.11.2026")],
                    [k |-> "min_temp_celsius", v |-> Some(3)],
                    [k |-> "max_temp_celsius", v |-> Some(9)]>>)),
          Raise("Exception")}

GrownToolFirst(messages, content, tool_response) ==
    messages \o <<Content("tool", <<tool_response>>), content>>

(* messages.append(content); messages.append(Content(role="tool", ...)) *)
Grown(messages, content, tool_response) ==
    messages \o <<content, Content("tool", <<tool_response>>)>>

ChatInit ==
    /\ doc = DefaultDoc
    /\ pc = "load"
    /\ parsed_aggs = None
    /\ stats = None
    /\ result = None
    /\ raised = None
    /\ formatted = None
    /\ formatted_again = None
    /\ ToolIdle
    /\ agent = None
    /\ pdf = None
    /\ \E messages \in Conversations :
          chat = Some([messages |-> messages, cpc |-> "start", sent |-> <<>>,
                       response |-> None, calls |-> <<>>, function_response |-> None,
                       second_response |-> None, returned |-> None, raised |-> None])

(* client.models.generate_content(contents=messages): the first response *)
FirstRequest ==
    /\ chat # None
    /\ chat[1].cpc = "start"
    /\ LET c == chat[1]
       IN  \/ \E response \in ModelResponses :
                chat' = Some([c EXCEPT !.sent = Append(c.sent, c.messages),
                                       !.response = Some(response),
                                       !.cpc = "respond"])
           \/ chat' = Some([c EXCEPT !.sent = Append(c.sent, c.messages),
                                     !.raised = Some("APIError"),
                                     !.cpc = "done"])
    /\ UNCHANGED <<analyzer, tool, agent, pdf>>

(* the if on parts[0].function_call, the lookup and the call *)
CallFunction ==
    /\ chat # None
    /\ chat[1].cpc = "respond"
    /\ LET c == chat[1]
           parts == c.response[1].content.parts
       IN  IF parts = <<>>
           THEN chat' = Some([c EXCEPT !.raised = Some("IndexError"), !.cpc = "done"])
           ELSE IF parts[1].function_call = None
           THEN chat' = Some([c EXCEPT !.returned = Some(NoFunctionCallText),
                                       !.cpc = "done"])
           ELSE LET tool_call == parts[1].function_call[1]
                IN  IF tool_call.name \notin available_functions
                    THEN chat' = Some([c EXCEPT !.raised = Some("KeyError"),
                                                !.cpc = "done"])
                    ELSE \E outcome \in FunctionOutcomes(tool_call.name, tool_call.args) :
                           chat' = Some([c EXCEPT
                               !.calls = Append(c.calls, [name |-> tool_call.name,
                                                          args |-> tool_call.args]),
                               !.function_response =
                                   IF IsOk(outcome) THEN Some(outcome.val) ELSE None,
                               !.raised = IF IsOk(outcome) THEN None ELSE Some(outcome.exc),
                               !.cpc = IF IsOk(outcome) THEN "called" ELSE "done"])
    /\ UNCHANGED <<analyzer, tool, agent, pdf>>

(* the two appends, the second request and the return of its text *)
SecondRequest ==
    /\ chat # None
    /\ chat[1].cpc = "called"
    /\ LET c == chat[1]
           content == c.response[1].content
           function_name == content.parts[1].function_call[1].name
           messages == Grown(c.messages, content,
                             ResponsePart(function_name, c.function_response[1]))
       IN  \/ \E final_answer \in {Some("Zitra bude 3 az 9 stupnu."), Some(""), None} :
                chat' = Some([c EXCEPT !.messages = messages,
                                       !.sent = Append(c.sent, messages),
                                       !.second_response = Some(final_answer),
                                       !.returned = Some(final_answer),
                                       !.cpc = "done"])
           \/ chat' = Some([c EXCEPT !.messages = messages,
                                     !.sent = Append(c.sent, messages),
                                     !.raised = Some("APIError"),
                                     !.cpc = "done"])
    /\ UNCHANGED <<analyzer, tool, agent, pdf>>

ChatNext ==
    \/ FirstRequest
    \/ CallFunction
    \/ SecondRequest

ChatSpec == ChatInit /\ [][ChatNext]_vars

-----------------------------------------------------------------------------
(* Properties *)

ParsedNames == <<"severity", "regions", "types", "agents", "decoders", "srcips",
                 "timeline">>

EmptyOrAbsent(section) ==
    section.st \in {"absent", "nobuckets"}
    \/ (section.st = "buckets" /\ section.buckets = <<>>)

WellFormed(section) ==
    /\ section.st \in {"absent", "nobuckets", "buckets"}
    /\ \A i \in 1..Len(section.buckets) :
          \A f \in DOMAIN section.buckets[i] : section.buckets[i][f] # None

(* the aggregation step has run on a decoded document without an error key *)
ParseRan == pc \notin {"load", "parse"} /\ doc.json = "object" /\ ~doc.error

(* C1: parsing is total over absent or empty sections. Whenever the        *)
(* sections of the input are each absent, empty or filled with complete    *)
(* buckets, parse_aggregations returns (raises nothing), and every section *)
(* that is absent or has no buckets gives an empty mapping (an empty       *)
(* timeline for the timeline section).                                     *)
C1_ParsingTotal ==
    (ParseRan /\ \A i \in 1..7 : WellFormed(AggregationsOf(doc)[AggNames[i]]))
    => /\ parsed_aggs # None
       /\ \A i \in 1..7 :
             EmptyOrAbsent(AggregationsOf(doc)[AggNames[i]])
             => parsed_aggs[1][ParsedNames[i]] = <<>>

C1_Witness ==
    /\ pc = "stats"
    /\ parsed_aggs # None
    /\ AggregationsOf(doc).by_level.st = "absent"
    /\ AggregationsOf(doc).timeline.st = "absent"
    /\ AggregationsOf(doc).by_agent = Section(<<>>)
    /\ parsed_aggs[1].regions # <<>>
    /\ parsed_aggs[1].severity = <<>>
    /\ parsed_aggs[1].timeline = <<>>

(* the integer a severity key stands for, read off the key itself *)
LevelOf(key) ==
    IF key.t = "int" THEN key.n
    ELSE CASE key.s = <<"9">> -> 9
           [] key.s = <<"1", "0">> -> 10
           [] key.s = <<" ", "1", "2">> -> 12
           [] OTHER -> 0

RECURSIVE SumCounts(_, _)
SumCounts(d, idx) ==
    IF idx = {} THEN 0
    ELSE LET i == CHOOSE j \in idx : TRUE IN d[i].v + SumCounts(d, idx \ {i})

(* C2: critical_count is the sum of the counts of exactly those severity   *)
(* keys whose integer value is at least 10 (9 is not critical), whether    *)
(* the key is an integer or its numeric string.                            *)
C2_CriticalCount ==
    stats # None
    => LET sev == parsed_aggs[1].severity
       IN  stats[1].critical_count =
              SumCounts(sev, {i \in 1..Len(sev) : LevelOf(sev[i].k) >= 10})

C2_Witness ==
    /\ stats # None
    /\ Lookup(parsed_aggs[1].severity, IntKey(9), 0) = 1
    /\ Lookup(parsed_aggs[1].severity, StrKey(<<"1", "0">>), 0) = 1
    /\ stats[1].critical_count = 1

RankedDims == <<"regions", "types", "srcips">>
RankedStats == <<"top_country", "top_incident_type", "top_srcip">>

IndexOf(d, key) == CHOOSE i \in 1..Len(d) : d[i].k = key

(* C3: when a ranked dimension holds a key other than "N/A", the top key   *)
(* is not "N/A"; it is a key of the dimension whose count no other         *)
(* non-sentinel key exceeds, and it comes before every other non-sentinel  *)
(* key with the same count.                                                *)
C3_TopRankSkipsSentinel ==
    stats # None
    => \A r \in 1..3 :
          LET d == parsed_aggs[1][RankedDims[r]]
              top == stats[1][RankedStats[r]]
          IN  (\E i \in 1..Len(d) : d[i].k # NA)
              => /\ top # NA
                 /\ HasKey(d, top)
                 /\ \A i \in 1..Len(d) :
                       d[i].k # NA
                       => /\ d[i].v <= Lookup(d, top, 0)
                          /\ d[i].v = Lookup(d, top, 0) => IndexOf(d, top) <= i

C3_Witness ==
    /\ stats # None
    /\ LET d == parsed_aggs[1].regions
       IN  /\ Len(d) = 3
           /\ d[1].k = NA /\ d[1].v > d[2].v
           /\ d[2].v = d[3].v
           /\ stats[1].top_country = d[2].k

C5_DailyAverage ==
    (stats # None /\ TotalHitsOf(doc) >= 0 /\ DaysOf(doc) >= 1)
    => /\ stats[1].total_incidents = TotalHitsOf(doc)
       /\ 2 * Abs(10 * TotalHitsOf(doc) - stats[1].daily_average * DaysOf(doc))
             <= DaysOf(doc)

C5_Witness ==
    /\ stats # None
    /\ TotalHitsOf(doc) = 2
    /\ DaysOf(doc) = 3
    /\ stats[1].daily_average = 7
    /\ stats[1].total_incidents = 2

(* C6: a day span of zero or less is an input error: no statistics and no  *)
(* result come out of a document whose query_info.days <= 0.               *)
C6_NonPositiveDaysRaise ==
    DaysOf(doc) <= 0 => stats = None /\ result = None

(* a severity key that int() rejects, read off the key itself *)
NonNumeric(key) ==
    /\ key.t = "str"
    /\ \/ key.s = <<>>
       \/ \E i \in 1..Len(key.s) : key.s[i] \notin DigitChars \cup {" ", "+", "-"}

(* C7: if a severity key is not an integer literal, the statistics step    *)
(* fails: no statistics and no result exist, and once the step has run the *)
(* call has been left by a ValueError.                                     *)
C7_NonNumericSeverityFails ==
    (parsed_aggs # None
       /\ \E i \in 1..Len(parsed_aggs[1].severity) : NonNumeric(parsed_aggs[1].severity[i].k))
    => /\ stats = None
       /\ result = None
       /\ pc # "stats" => (pc = "raised" /\ raised # None /\ raised[1].type = "ValueError")

C7_Witness ==
    /\ pc = "raised"
    /\ parsed_aggs # None
    /\ Len(parsed_aggs[1].severity) = 2
    /\ parsed_aggs[1].severity[1] = [k |-> IntKey(10), v |-> 1]
    /\ NonNumeric(parsed_aggs[1].severity[2].k)
    /\ DaysOf(doc) = DefaultDays

(* C8: a top-level error key short-circuits the extraction: once the check *)
(* has run the call has been left by a ValueError, and no aggregation was  *)
(* parsed, no statistic computed and no result built.                      *)
C8_ErrorKeyShortCircuits ==
    (doc.json = "object" /\ doc.error /\ pc # "load")
    => /\ pc = "raised"
       /\ raised # None /\ raised[1].type = "ValueError"
       /\ parsed_aggs = None /\ stats = None /\ result = None /\ formatted = None

C8_Witness ==
    /\ pc = "raised"
    /\ doc.json = "object"
    /\ doc.error
    /\ doc.aggregations # None
    /\ \A i \in 1..7 : AggregationsOf(doc)[AggNames[i]].buckets # <<>>
    /\ DaysOf(doc) = DefaultDays
    /\ parsed_aggs = None

(* C9: the end-to-end scenario succeeds with daily_average 10.0,           *)
(* critical_count 3 and top_country "Czechia".                             *)
C9_Scenario ==
    doc = ScenarioDoc
    => /\ pc # "raised"
       /\ pc \in {"returned", "formatted", "format_raised"}
          => /\ result # None
             /\ result[1].statistics.daily_average = 100
             /\ result[1].statistics.critical_count = 3
             /\ result[1].statistics.top_country = Czechia

C9_Witness ==
    /\ doc = ScenarioDoc
    /\ pc = "returned"
    /\ result # None
    /\ result[1].statistics.top_country = Czechia

IncidentLines(text) == SelectSeq(text, LAMBDA l : l.kind = "incident")

(* C10: the text the formatter returns holds exactly min(n, 200) incident  *)
(* entries, numbered 1..min(n, 200), the i-th entry showing the i-th       *)
(* sample record of the input; no later record appears.                    *)
C10_SampleCap ==
    formatted # None
    => LET input == Get(doc.sample_incidents, <<>>)
           entries == IncidentLines(formatted[1])
       IN  /\ Len(entries) = IF Len(input) < 200 THEN Len(input) ELSE 200
           /\ \A i \in 1..Len(entries) :
                 /\ entries[i].n = i
                 /\ entries[i].fields[1].timestamp.val = input[i].timestamp.val

C10_Witness ==
    /\ formatted # None
    /\ Len(Get(doc.sample_incidents, <<>>)) = 202
    /\ Len(IncidentLines(formatted[1])) = 200
    /\ IncidentLines(formatted[1])[200].n = 200

SectionOrder ==
    <<"overview", "severity", "timeline", "regions", "types", "agents", "decoders",
      "srcips", "samples">>

HeaderLines(text) == SelectSeq(text, LAMBDA l : l.kind = "header")

(* C12: the returned text holds the nine section headers exactly once and  *)
(* in the fixed order, every content line stands in the section of the     *)
(* header before it, and an empty dimension keeps its header with no       *)
(* content lines.                                                          *)
C12_SectionOrder ==
    formatted # None
    => LET text == formatted[1]
           heads == HeaderLines(text)
       IN  /\ Len(heads) = Len(SectionOrder)
           /\ \A i \in 1..Len(heads) : heads[i].sec = SectionOrder[i]
           /\ text[1].kind = "header"
           /\ \A i \in 2..Len(text) :
                 text[i].kind # "header" => text[i].sec = text[i - 1].sec
           /\ \A i \in 1..7 :
                 result[1].aggregations[ParsedNames[i]] = <<>>
                 => \A j \in 1..Len(text) :
                       text[j].sec = ParsedNames[i] => text[j].kind = "header"

C12_Witness ==
    /\ formatted # None
    /\ result[1].aggregations.regions = <<>>
    /\ result[1].aggregations.decoders = <<>>
    /\ result[1].aggregations.severity # <<>>
    /\ result[1].aggregations.srcips # <<>>
    /\ Len(HeaderLines(formatted[1])) = 9

RECURSIVE SumDocCounts(_)
SumDocCounts(buckets) ==
    IF buckets = <<>> THEN 0 ELSE Head(buckets).doc_count[1] + SumDocCounts(Tail(buckets))

(* C13 as claimed: every statistics record the pipeline produces has       *)
(* critical_count <= total_incidents.                                      *)
C13_CriticalWithinTotal ==
    stats # None => stats[1].critical_count <= stats[1].total_incidents

(* C13, amended: critical_count <= total_incidents in every statistics     *)
(* record produced from a document whose total_hits is at least the sum of *)
(* the counts of its by_level buckets.                                     *)
C13_CriticalWithinConsistentTotal ==
    (stats # None
       /\ TotalHitsOf(doc) >= SumDocCounts(AggregationsOf(doc).by_level.buckets))
    => stats[1].critical_count <= stats[1].total_incidents

C13_Witness ==
    /\ stats # None
    /\ TotalHitsOf(doc) = SumDocCounts(AggregationsOf(doc).by_level.buckets)
    /\ stats[1].critical_count = 1
    /\ stats[1].total_incidents = 3

NoRepeatedDate(dates) ==
    \A i, j \in 1..Len(dates) : dates[i] = dates[j] => i = j

TimelineInput == AggregationsOf(doc).timeline.buckets

(* C14 as claimed: no date occurs in two entries of a parsed timeline,     *)
(* whatever the list of timeline buckets was.                              *)
C14_TimelineDatesUnique ==
    parsed_aggs # None
    => NoRepeatedDate([i \in 1..Len(parsed_aggs[1].timeline) |->
                          parsed_aggs[1].timeline[i].date])

(* C14, amended: the parsed timeline has one entry per input bucket, so no *)
(* date occurs in two of its entries whenever no date occurs in two of the *)
(* input buckets.                                                          *)
C14_TimelineDatesUniqueIfInputIs ==
    (parsed_aggs # None
       /\ NoRepeatedDate([i \in 1..Len(TimelineInput) |-> TimelineInput[i].key_as_string]))
    => /\ Len(parsed_aggs[1].timeline) = Len(TimelineInput)
       /\ NoRepeatedDate([i \in 1..Len(parsed_aggs[1].timeline) |->
                             parsed_aggs[1].timeline[i].date])

C14_Witness ==
    /\ parsed_aggs # None
    /\ Len(TimelineInput) = 3
    /\ NoRepeatedDate([i \in 1..Len(TimelineInput) |-> TimelineInput[i].key_as_string])
    /\ parsed_aggs[1].timeline[1].date = "2025-01-03"
    /\ parsed_aggs[1].timeline[3].date = "2025-01-01"

TopSections ==
    <<[sec |-> "regions", n |-> 10], [sec |-> "types", n |-> 10],
      [sec |-> "agents", n |-> 10], [sec |-> "decoders", n |-> 10],
      [sec |-> "srcips", n |-> 20]>>

ItemLinesOf(text, sec) == SelectSeq(text, LAMBDA l : l.sec = sec /\ l.kind = "item")

DistinctTexts(d) ==
    \A p, q \in 1..Len(d) : KeyText(d[p].k) = KeyText(d[q].k) => p = q

PlaceOf(d, label) == CHOOSE p \in 1..Len(d) : KeyText(d[p].k) = label

(* C18: each top-N section (N = 10, source IPs N = 20) lists min(N, number *)
(* of keys) entries, each a key of the dimension with its count, in        *)
(* non-increasing order of count; keys of equal count stand in the order   *)
(* the dimension holds them; no omitted key has a greater count than a     *)
(* listed one, nor an equal count and an earlier place; "N/A" is listed    *)
(* like any other key.                                                     *)
C18_TopSections ==
    formatted # None
    => \A s \in 1..Len(TopSections) :
          LET n == TopSections[s].n
              d == result[1].aggregations[TopSections[s].sec]
              lines == ItemLinesOf(formatted[1], TopSections[s].sec)
              listed == {lines[a].label : a \in 1..Len(lines)}
          IN  DistinctTexts(d)
              => /\ Len(lines) = IF Len(d) < n THEN Len(d) ELSE n
                 /\ \A a \in 1..Len(lines) :
                       \E p \in 1..Len(d) :
                          KeyText(d[p].k) = lines[a].label /\ d[p].v = lines[a].count
                 /\ \A a, b \in 1..Len(lines) :
                       a < b
                       => \/ lines[a].count > lines[b].count
                          \/ /\ lines[a].count = lines[b].count
                             /\ PlaceOf(d, lines[a].label) < PlaceOf(d, lines[b].label)
                 /\ \A p \in 1..Len(d) :
                       KeyText(d[p].k) \notin listed
                       => \A a \in 1..Len(lines) :
                             \/ d[p].v < lines[a].count
                             \/ /\ d[p].v = lines[a].count
                                /\ PlaceOf(d, lines[a].label) < p
                 /\ (Len(d) <= n /\ HasKey(d, NA)) => KeyText(NA) \in listed

C18_Witness ==
    /\ formatted # None
    /\ Len(result[1].aggregations.regions) = 12
    /\ DistinctTexts(result[1].aggregations.regions)
    /\ LET lines == ItemLinesOf(formatted[1], "regions")
       IN  /\ Len(lines) = 10
           /\ lines[1].label = KeyText(NA) /\ lines[1].count = 3
           /\ lines[2].label = <<"k", "7">> /\ lines[2].count = 3
           /\ lines[10].label = <<"k", "4">> /\ lines[10].count = 0

FormatterRan == pc \in {"formatted", "formatted_again", "format_raised"}

(* every field of every sample record of the document holds a value *)
PlainSamples ==
    LET samples == Get(doc.sample_incidents, <<>>)
    IN  \A i \in 1..Len(samples) : \A f \in DOMAIN samples[i] : samples[i][f].st = "val"

(* C19: once the formatter has run on a result whose severity keys the     *)
(* statistics calculator accepted (integers or numeric strings), it has    *)
(* returned a text whose severity section lists every level of the         *)
(* severity mapping exactly once, in ascending numeric order of level.     *)
C19_SeverityAscending ==
    (result # None /\ FormatterRan /\ PlainSamples)
    => /\ formatted # None
       /\ LET severity == result[1].aggregations.severity
              lines == ItemLinesOf(formatted[1], "severity")
          IN  /\ Len(lines) = Len(severity)
              /\ \A i \in 1..Len(severity) :
                    \E a \in 1..Len(lines) :
                       /\ lines[a].label = KeyText(severity[i].k)
                       /\ lines[a].count = severity[i].v
              /\ \A a, b \in 1..Len(lines) :
                    a < b => IntOfStr(lines[a].label)[1] < IntOfStr(lines[b].label)[1]

SampleFields ==
    {"timestamp", "agent_name", "rule_level", "rule_description", "rule_groups",
     "country_name", "src_ip", "url", "full_log"}

(* C20: once the formatter has run on a result, it has returned a text,    *)
(* and in each incident entry every field that the sample record lacks or  *)
(* holds as null is rendered as "N/A".                                     *)
C20_LackingFieldsShownAsSentinel ==
    (result # None /\ FormatterRan
       /\ \A i \in 1..Len(result[1].aggregations.severity) :
             result[1].aggregations.severity[i].k.t = "int")
    => /\ formatted # None
       /\ LET samples == Get(doc.sample_incidents, <<>>)
              entries == IncidentLines(formatted[1])
          IN  \A i \in 1..Len(entries) : \A f \in SampleFields :
                 samples[i][f].st \in {"missing", "null"}
                 => entries[i].fields[1][f] = [lit |-> "N/A", val |-> 0]

SearchToolRan == work # None /\ work[1].fn = "search_wazuh_incidents" /\ work[1].issued # None

SevenAggregations ==
    {"by_level", "by_region", "by_groups", "by_agent", "by_decoder", "by_srcip", "timeline"}

(* C15: the query search_wazuh_incidents issues asks, for query_type       *)
(* 'all', for max_sample_size documents and the seven aggregations, and    *)
(* for query_type 'sample', for max_sample_size documents and no           *)
(* aggregations.                                                           *)
C15_QueryTypeContract ==
    SearchToolRan
    => LET w == work[1]
           query == w.issued[1]
       IN  /\ w.query_type = "all"
              => /\ query.size = w.max_sample_size
                 /\ query.aggs # None
                 /\ Len(query.aggs[1]) = 7
                 /\ {query.aggs[1][i] : i \in 1..7} = SevenAggregations
           /\ w.query_type = "sample"
              => /\ query.size = w.max_sample_size
                 /\ query.aggs = None

MonthLength(y, m) ==
    IF m = 2 THEN (IF (y % 4 = 0 /\ y % 100 # 0) \/ y % 400 = 0 THEN 29 ELSE 28)
    ELSE IF m \in {4, 6, 9, 11} THEN 30 ELSE 31

(* b is the calendar day after a *)
IsNextDay(a, b) ==
    IF a.d < MonthLength(a.y, a.m) THEN b = Date(a.y, a.m, a.d + 1)
    ELSE IF a.m < 12 THEN b = Date(a.y, a.m + 1, 1)
    ELSE b = Date(a.y + 1, 1, 1)

(* wazuh-alerts-4.x-YYYY.MM.DD *)
IsIndexName(name) ==
    /\ Len(name) = 27
    /\ SubSeq(name, 1, 17) = <<"w", "a", "z", "u", "h", "-", "a", "l", "e", "r", "t", "s",
                               "-", "4", ".", "x", "-">>
    /\ name[22] = "." /\ name[25] = "."
    /\ \A i \in {18, 19, 20, 21, 23, 24, 26, 27} : name[i] \in DigitChars

DateIn(name) ==
    Date(DigitsValue(SubSeq(name, 18, 21), 0), DigitsValue(SubSeq(name, 23, 24), 0),
         DigitsValue(SubSeq(name, 26, 27), 0))

(* C17: for days >= 1 the index pattern is exactly `days` names of the     *)
(* form wazuh-alerts-4.x-YYYY.MM.DD separated by commas, each the calendar *)
(* day after the one before it, none repeated, the last one today's date.  *)
C17_IndexPattern ==
    (SearchToolRan /\ work[1].days >= 1)
    => LET names == SplitOn(work[1].index_pattern, ",")
       IN  /\ Len(names) = work[1].days
           /\ \A i \in 1..Len(names) :
                 /\ IsIndexName(names[i])
                 /\ DateIn(names[i]).m \in 1..12
                 /\ DateIn(names[i]).d \in 1..MonthLength(DateIn(names[i]).y, DateIn(names[i]).m)
           /\ \A i \in 1..Len(names) - 1 : IsNextDay(DateIn(names[i]), DateIn(names[i + 1]))
           /\ \A i, j \in 1..Len(names) : names[i] = names[j] => i = j
           /\ DateIn(names[Len(names)]) = req[1].now

C17_Witness ==
    /\ SearchToolRan
    /\ work[1].days = 3
    /\ req[1].now = Date(2100, 3, 2)
    /\ LET names == SplitOn(work[1].index_pattern, ",")
       IN  /\ Len(names) = 3
           /\ DateIn(names[1]) = Date(2100, 2, 28)
           /\ DateIn(names[2]) = Date(2100, 3, 1)

WebSearchCalled == req # None /\ work # None /\ work[1].fn = "web_search" /\ tpc # "web"

(* C16: web_search validates before searching. For a query that is empty   *)
(* or only blanks, or max_results < 1 or > 20, no search is issued and the *)
(* returned document has an "error" key and no "results"; otherwise, when  *)
(* the search succeeded, the document has no "error" key, total_results is *)
(* the number of entries in results, and the i-th entry has position i and *)
(* shows the i-th result the search returned.                              *)
C16_WebSearchValidation ==
    WebSearchCalled
    => LET w == work[1]
           query == Get(req[1].arguments.query, <<>>)
           invalid == \/ \A i \in 1..Len(query) : query[i] = " "
                      \/ w.max_results < 1
                      \/ w.max_results > 20
       IN  /\ invalid
              => /\ w.issued = None
                 /\ tpc = "done"
                 /\ resp[1].kind = "json"
                 /\ resp[1].doc[1].error # None
                 /\ resp[1].doc[1].results = None
           /\ (~invalid /\ tpc = "done" /\ w.found # None)
              => LET document == resp[1].doc[1]
                     found == w.found[1]
                 IN  /\ document.error = None
                     /\ document.results # None
                     /\ document.total_results = Some(Len(document.results[1]))
                     /\ Len(document.results[1]) = Len(found)
                     /\ \A i \in 1..Len(found) :
                           /\ document.results[1][i].position = i
                           /\ document.results[1][i].title = Get(found[i].title, "")
                           /\ document.results[1][i].url = Get(found[i].href, "")
                           /\ document.results[1][i].snippet = Get(found[i].body, "")

C16_Witness ==
    /\ WebSearchCalled
    /\ tpc = "done"
    /\ req[1].arguments.query = Some(<<" ", " ">>)
    /\ work[1].max_results = 1
    /\ work[1].issued = None
    /\ resp[1].doc[1].error = Some("Query cannot be empty")

(* C21: when a section of the input is malformed - null, not a mapping, a  *)
(* null bucket list, or a bucket without its key, date or count - the      *)
(* aggregation step still returns, with an empty result for a dimension    *)
(* whose section is null, not a mapping or has a null bucket list.         *)
C21_MalformedDegrades ==
    (ParseRan /\ \E i \in 1..7 : ~WellFormed(AggregationsOf(doc)[AggNames[i]]))
    => /\ parsed_aggs # None
       /\ \A i \in 1..7 :
             AggregationsOf(doc)[AggNames[i]].st \in {"null", "list", "nullbuckets"}
             => parsed_aggs[1][ParsedNames[i]] = <<>>

RECURSIVE Occurs(_, _)
Occurs(x, seq) == seq # <<>> /\ (Head(seq) = x \/ Occurs(x, Tail(seq)))

(* C22: main() runs its steps in the order tool query, extraction, LLM     *)
(* analysis, PDF generation; and when the answer of the search tool holds  *)
(* an error key, or the extraction has raised, the LLM has not been and is *)
(* not invoked, generate_pdf_report is not called, no report exists, and   *)
(* the run ends with the failure reported.                                 *)
C22_FatalErrorAborts ==
    agent # None
    => LET a == agent[1]
           order == <<"search_tool", "extract", "llm", "pdf">>
       IN  /\ Len(a.calls) <= 4
           /\ a.calls = SubSeq(order, 1, Len(a.calls))
           /\ (HasErrorKey(doc) \/ pc = "raised")
              => /\ ~Occurs("llm", a.calls)
                 /\ ~Occurs("pdf", a.calls)
                 /\ a.report = None
                 /\ a.mpc \in {"start", "ended", "extract", "failed"}
                 /\ a.mpc = "failed" => a.reported

C22_Witness ==
    /\ AgentAt("failed")
    /\ doc = ToolErrorDoc
    /\ pc = "raised"
    /\ agent[1].calls = <<"search_tool", "extract">>
    /\ agent[1].reported

(* the place of the last bucket of the list that has this key *)
LastPlace(buckets, key) ==
    CHOOSE p \in 1..Len(buckets) :
        /\ buckets[p].key[1] = key
        /\ \A q \in (p + 1)..Len(buckets) : buckets[q].key[1] # key

(* C23: each bucket dimension that the parser returns holds exactly the    *)
(* distinct keys of its bucket list, with value and type as in the bucket  *)
(* (an integer stays an integer, a string a string), each once, and maps a *)
(* key to the doc_count of the last bucket that has this key.              *)
C23_BucketProjection ==
    (ParseRan /\ parsed_aggs # None)
    => \A i \in 1..6 :
          LET buckets == AggregationsOf(doc)[AggNames[i]].buckets
              d == parsed_aggs[1][ParsedNames[i]]
          IN  /\ {d[j].k : j \in 1..Len(d)} = {buckets[p].key[1] : p \in 1..Len(buckets)}
              /\ \A j, l \in 1..Len(d) : d[j].k = d[l].k => j = l
              /\ \A j \in 1..Len(d) :
                    d[j].v = buckets[LastPlace(buckets, d[j].k)].doc_count[1]

C23_Witness ==
    /\ ParseRan
    /\ parsed_aggs # None
    /\ AggregationsOf(doc).by_level.buckets
          = <<Bucket(IntKey(9), 0), Bucket(IntKey(9), 1)>>
    /\ parsed_aggs[1].severity = <<[k |-> IntKey(9), v |-> 1]>>
    /\ AggregationsOf(doc).by_region.buckets # <<>>

DayLines(text) == SelectSeq(text, LAMBDA l : l.sec = "timeline" /\ l.kind = "day")

(* C24: the parsed timeline has one (date, count) entry per input bucket,  *)
(* in the order of the input buckets, and the timeline section of the      *)
(* formatted text has one line per entry, in that same order.              *)
C24_TimelineKeepsOrder ==
    /\ (ParseRan /\ parsed_aggs # None)
       => /\ Len(parsed_aggs[1].timeline) = Len(TimelineInput)
          /\ \A i \in 1..Len(TimelineInput) :
                /\ parsed_aggs[1].timeline[i].date = TimelineInput[i].key_as_string[1]
                /\ parsed_aggs[1].timeline[i].count = TimelineInput[i].doc_count[1]
    /\ formatted # None
       => LET lines == DayLines(formatted[1])
          IN  /\ Len(lines) = Len(TimelineInput)
              /\ \A i \in 1..Len(lines) :
                    /\ lines[i].name = TimelineInput[i].key_as_string[1]
                    /\ lines[i].count = TimelineInput[i].doc_count[1]

C24_Witness ==
    /\ formatted # None
    /\ Len(TimelineInput) = 3
    /\ TimelineInput[1].key_as_string = Some("2025-01-02")
    /\ TimelineInput[2].key_as_string = Some("2025-01-03")
    /\ TimelineInput[3].key_as_string = Some("2025-01-02")
    /\ DayLines(formatted[1])[2].name = "2025-01-03"
    /\ DayLines(formatted[1])[3].name = "2025-01-02"
    /\ DayLines(formatted[1])[3].count = 1

(* C25: the statistics calculator and the formatter leave their input as   *)
(* it was. A step of calculate_statistics, returning or raising, changes   *)
(* nothing in the parsed aggregations (mappings and timeline); a call of   *)
(* the formatter, returning or raising, changes nothing in the result it   *)
(* was given: aggregations, statistics and sample incidents.               *)
C25_NoSideEffects ==
    [][/\ pc = "stats" => parsed_aggs' = parsed_aggs
       /\ pc \in {"returned", "formatted"}
          => (result' = result /\ parsed_aggs' = parsed_aggs /\ stats' = stats)]_vars

C25_Witness ==
    /\ pc = "formatted_again"
    /\ Len(result[1].sample_incidents) = 202
    /\ result[1].sample_incidents = doc.sample_incidents[1]
    /\ result[1].aggregations = parsed_aggs[1]
    /\ result[1].statistics = stats[1]
    /\ HasKey(parsed_aggs[1].regions, NA)

OnlyDigits(key) ==
    key.t = "str" /\ key.s # <<>> /\ \A i \in 1..Len(key.s) : key.s[i] \in DigitChars

RECURSIVE NumeralValue(_)
NumeralValue(s) ==
    IF s = <<>> THEN 0
    ELSE 10 * NumeralValue(SubSeq(s, 1, Len(s) - 1)) + DigitVal(s[Len(s)])

(* the number the handler is to pass for an argument: the integer given,   *)
(* the value of a string of digits, or the default                         *)
PassedNumber(argument, default) ==
    IF argument = None THEN default
    ELSE IF argument[1].t = "int" THEN argument[1].n
    ELSE NumeralValue(argument[1].s)

(* the arguments that the tool of this name reads as numbers *)
NumbersOf(name) ==
    IF name = "search_wazuh_incidents" THEN {"days", "max_sample_size"}
    ELSE IF name = "web_search" THEN {"max_results"}
    ELSE {}

(* C26: handle_call_tool returns exactly one text content item whenever it *)
(* returns. For a name that is neither search_wazuh_incidents nor          *)
(* web_search no tool function is invoked and the text is "Tool execution  *)
(* error: Unknown tool: <name>". When every number argument of the tool is *)
(* an integer or a string of digits, the tool is invoked with the integer  *)
(* values, a string of digits giving the call the integer would give. When *)
(* a number argument of the tool is a string that is not an integer, the   *)
(* tool is not invoked and the text is a "Tool execution error".           *)
C26_HandlerNeverRaises ==
    (req # None /\ tpc # "call")
    => LET name == req[1].name
           arguments == req[1].arguments
           numbers == {arguments[f] : f \in NumbersOf(name)} \ {None}
       IN  /\ tpc = "done" => (Len(resp) = 1 /\ resp[1].type = "text")
           /\ name \notin {"search_wazuh_incidents", "web_search"}
              => /\ work = None
                 /\ tpc = "done"
                 /\ resp[1].kind = "error"
                 /\ resp[1].msg = <<"Unknown tool: ", name>>
           /\ (name = "search_wazuh_incidents"
                /\ \A a \in numbers : a[1].t = "int" \/ OnlyDigits(a[1]))
              => /\ work # None
                 /\ work[1].fn = name
                 /\ work[1].days = PassedNumber(arguments.days, 7)
                 /\ work[1].max_sample_size = PassedNumber(arguments.max_sample_size, 1000)
                 /\ work[1].query_type = Get(arguments.query_type, "all")
                 /\ tpc = "done" => resp[1].kind = "json"
           /\ (name = "web_search"
                /\ \A a \in numbers : a[1].t = "int" \/ OnlyDigits(a[1]))
              => /\ work # None
                 /\ work[1].fn = name
                 /\ work[1].max_results = PassedNumber(arguments.max_results, 5)
                 /\ tpc = "done" => resp[1].kind = "json"
           /\ (\E a \in numbers : NonNumeric(a[1]))
              => /\ work = None
                 /\ tpc = "done"
                 /\ resp[1].kind = "error"
                 /\ resp[1].msg[1] = "invalid literal for int() with base 10: "

C26_Witness ==
    /\ req # None
    /\ tpc = "done"
    /\ req[1].name = "search_wazuh_incidents"
    /\ req[1].arguments.days = Some(StrKey(<<"3">>))
    /\ req[1].arguments.max_sample_size = Some(StrKey(<<"1">>))
    /\ work # None
    /\ work[1].days = 3
    /\ work[1].max_sample_size = 1
    /\ resp[1].kind = "json"
    /\ resp[1].doc[1].error = None


(* the headers as the documentation words them *)
IsStrategicHeader(line) ==
    Contains(Lower(line), Strategick) /\ Contains(Lower(line), Doporuc)
IsTacticalHeader(line) ==
    /\ ~IsStrategicHeader(line)
    /\ Contains(Lower(line), Taktick) /\ Contains(Lower(line), Doporuc)
IsHeader(line) == IsStrategicHeader(line) \/ IsTacticalHeader(line)
NonBlank(line) == \E i \in 1..Len(line) : line[i] \notin Whitespace

(* the section current after the first j lines: that of the last header *)
SectionAtLine(lines, j) ==
    LET hs == {h \in 1..j : IsHeader(lines[h])}
    IN  IF hs = {} THEN "none"
        ELSE LET last == CHOOSE h \in hs : \A g \in hs : g <= h
             IN  IF IsStrategicHeader(lines[last]) THEN "strategic" ELSE "tactical"

(* the lines among the first n that belong to a section, each with its    *)
(* line break, in order                                                    *)
RECURSIVE SectionText(_, _, _)
SectionText(lines, n, section) ==
    IF n = 0 THEN <<>>
    ELSE SectionText(lines, n - 1, section)
         \o (IF /\ ~IsHeader(lines[n])
                 /\ NonBlank(lines[n])
                 /\ SectionAtLine(lines, n) = section
              THEN lines[n] \o <<NewLine>>
              ELSE <<>>)

(* C27: extract_recommendations is a three-state machine over the lines:  *)
(* a line with both "strategick" and "doporuc^" (any case) switches to     *)
(* strategic, otherwise one with both "taktick" and "doporuc^" switches to *)
(* tactical, headers are never copied, every other non-blank line goes, in *)
(* order, to exactly the section current at that point and to none before  *)
(* the first header; if both outputs end up empty the result is the whole  *)
(* text as strategic and an empty tactical.                                *)
C27_ThreeStateMachine ==
    pdf # None =>
        LET p == pdf[1]
            done == p.i - 1
        IN  /\ p.current_section = SectionAtLine(p.lines, done)
            /\ p.strategic = SectionText(p.lines, done, "strategic")
            /\ p.tactical = SectionText(p.lines, done, "tactical")
            /\ p.returned # None =>
                  LET strategic == SectionText(p.lines, Len(p.lines), "strategic")
                      tactical == SectionText(p.lines, Len(p.lines), "tactical")
                  IN  IF strategic = <<>> /\ tactical = <<>>
                      THEN p.returned[1] = [strategic |-> p.analysis_text,
                                            tactical |-> <<>>]
                      ELSE p.returned[1] = [strategic |-> PyStrip(strategic),
                                            tactical |-> PyStrip(tactical)]

(* a line naming both sections opens the strategic one, and a later       *)
(* tactical header moves the following line to the tactical output         *)
C27_Witness ==
    /\ pdf # None
    /\ pdf[1].lines = <<MarkedTacticalHeader, PlainLine, BothHeader,
                        IndentedLine, MarkedTacticalHeader>>
    /\ pdf[1].returned = Some([strategic |-> PyStrip(IndentedLine),
                               tactical |-> PlainLine])


(* the first part of the first response, where it has one *)
FirstPart(c) == c.response[1].content.parts[1]
AsksRegistered(c) ==
    /\ c.response # None
    /\ c.response[1].content.parts # <<>>
    /\ FirstPart(c).function_call # None
    /\ FirstPart(c).function_call[1].name \in available_functions
AsksNothing(c) ==
    /\ c.response # None
    /\ c.response[1].content.parts # <<>>
    /\ FirstPart(c).function_call = None

(* C28: when the first part of the first response is a function call      *)
(* naming a registered function, that function alone is invoked, once,     *)
(* with the call's arguments; the conversation grows by exactly two        *)
(* entries, the model's function-call content and then the tool response   *)
(* carrying the function's result; only then one second request is made,   *)
(* and its text is returned. When the first part is not a function call,   *)
(* nothing is invoked, no second request is made, the conversation is      *)
(* unchanged and "No relevant function call found." is returned.           *)
C28_ToolCallRoundTrip ==
    chat # None =>
        LET c == chat[1]
            before == c.sent[1]
        IN  /\ Len(c.calls) <= 1
            /\ Len(c.sent) <= 2
            /\ c.sent # <<>> => c.messages = c.sent[Len(c.sent)]
            /\ c.calls # <<>> =>
                  /\ AsksRegistered(c)
                  /\ c.calls[1] = FirstPart(c).function_call[1]
            /\ (AsksRegistered(c) /\ c.cpc \in {"called", "done"}) =>
                  /\ Len(c.calls) = 1
                  /\ c.function_response # None =>
                        \/ c.cpc = "called" /\ Len(c.sent) = 1 /\ c.returned = None
                        \/ /\ c.cpc = "done"
                           /\ Len(c.sent) = 2
                           /\ Len(c.sent[2]) = Len(before) + 2
                           /\ SubSeq(c.sent[2], 1, Len(before)) = before
                           /\ c.sent[2][Len(before) + 1] = c.response[1].content
                           /\ c.sent[2][Len(before) + 2] =
                                 Content("tool",
                                     <<ResponsePart(c.calls[1].name, c.function_response[1])>>)
                           /\ c.second_response # None =>
                                 c.returned = Some(c.second_response[1])
                  /\ c.function_response = None =>
                        Len(c.sent) = 1 /\ c.returned = None /\ c.raised # None
            /\ (AsksNothing(c) /\ c.cpc = "done") =>
                  /\ c.calls = <<>>
                  /\ Len(c.sent) = 1
                  /\ c.messages = before
                  /\ c.raised = None
                  /\ c.returned = Some(NoFunctionCallText)
            /\ Len(c.sent) = 2 => AsksRegistered(c) /\ c.function_response # None

(* a weather call that returned a forecast, after a history of two        *)
(* prompts: four entries in the conversation and the second text returned  *)
C28_Witness ==
    /\ chat # None
    /\ chat[1].cpc = "done"
    /\ chat[1].calls = <<[name |-> "get_tomorrow_weather",
                          args |-> Some(<<[k |-> "city_name", v |-> "Hradec Kralove"]>>)]>>
    /\ chat[1].function_response # None
    /\ chat[1].function_response[1] # None
    /\ Len(chat[1].messages) = 4
    /\ chat[1].messages[4].role = "tool"
    /\ chat[1].returned = Some(Some("Zitra bude 3 az 9 stupnu."))

====
